---- MODULE Spec2Model ----
(***************************************************************************)
(* A model of the task distribution and execution engine of celery.        *)
(*                                                                         *)
(*   celery/worker.py                                                      *)
(*     SpecDaemon      the daemon's fetch / submit / ack loop               *)
(*     SpecDaemonPool  the same loop with the workers of its pool           *)
(*     SpecSubmit      what execute_using_pool hands to the pool           *)
(*   celery/concurrency/processes/__init__.py                              *)
(*     SpecPool        the pool's completion callbacks                     *)
(*     SpecLife        start, stop and terminate of the pool               *)
(*   celery/app/amqp.py                                                    *)
(*     SpecAmqp        the publisher's exchange / queue declaration memo   *)
(*     SpecPublish     the task message delay_task builds                  *)
(*     SpecSend        the exchanges one publisher sends to               *)
(*     SpecConsumer    the consumer set's receive callback                 *)
(*     SpecQueues      the queue descriptors of get_queues                 *)
(*   celery/backends/base.py                                               *)
(*     SpecWait        wait_for (FairSpecWait: with its loop running on)   *)
(*     SpecExc         prepare_exception                                   *)
(*                                                                         *)
(* Each specification moves the variables of its own component; those of   *)
(* the other components stay at their initial values.                      *)
(***************************************************************************)
EXTENDS Integers, Sequences, FiniteSets, Bags, TLC

VARIABLES
    \* ---- worker daemon (TaskDaemon.run) ----
    pc,               \* position of the run loop
    cur,              \* the message fetched in this iteration, 0 when none
    fetched,          \* number of messages delivered by the broker so far
    body,             \* body[m]: the body of message m
    log,              \* the daemon's calls on messages and on the pool, in order
    clock,            \* time.time()
    last_empty_emit,  \* local of run(): <<>> for None, <<t>> for the time t of the last notice
    emit_every,       \* TaskDaemon.empty_msg_emit_every
    idle,             \* the empty polls so far, in order
    \* ---- process pool (TaskPool) ----
    item,             \* the work item in flight
    \* ---- publisher declarations (celery.app.amqp) ----
    exchanges_declared,  \* _exchanges_declared
    queues_declared,     \* _queues_declared
    publishers,          \* publishers[k]: the publishers of kind k that their callers hold
    threads,             \* threads[t]: the call of thread t that waits for the broker
    overlapped,          \* whether a call began while another waited for the broker
    broker,              \* what the broker has been asked to do
    \* ---- the task message (TaskPublisher.delay_task) ----
    published,           \* the last call of delay_task and what came of it
    \* ---- the consumer set (ConsumerSet._receive_callback) ----
    received,            \* the last raw message given to _receive_callback and what came of it
    \* ---- the workers of the daemon's pool ----
    finished,            \* the messages whose tasks the pool's workers have finished
    \* ---- the result backend (BaseBackend.wait_for) ----
    wait,                \* a call of wait_for, the clock and the stored status and result of its task
    \* ---- the pool's life (TaskPool.start / stop / terminate) ----
    taskpool,            \* TaskPool._pool, the underlying pool, and the last call of start, stop or terminate
    \* ---- exceptions for storage (BaseBackend.prepare_exception) ----
    prepared,            \* the exception given to prepare_exception and what it returned
    \* ---- the queue descriptors (AMQP.get_queues) ----
    resolved,            \* CELERY_QUEUES as configured and what get_queues returned
    \* ---- the submission (TaskWrapper.execute_using_pool) ----
    submitted,           \* the last task handed to the pool and the arguments apply_async was given
    \* ---- the sends of one publisher (TaskPublisher.delay_task) ----
    sender               \* one publisher from AMQP.TaskPublisher, the two memos and the messages it sent

daemonVars     == <<pc, cur, fetched, body, log, clock, last_empty_emit, emit_every, idle>>
poolVars       == <<item>>
amqpVars       == <<exchanges_declared, queues_declared, publishers, threads, overlapped, broker>>
publishVars    == <<published>>
consumerVars   == <<received>>
completionVars == <<finished>>
waitVars       == <<wait>>
lifeVars       == <<taskpool>>
excVars        == <<prepared>>
queuesVars     == <<resolved>>
submitVars     == <<submitted>>
sendVars       == <<sender>>
vars           == <<daemonVars, poolVars, amqpVars, publishVars, consumerVars, completionVars, waitVars, lifeVars, excVars, queuesVars, submitVars, sendVars>>

\* What the actions of one component leave alone.
notDaemon      == <<poolVars, amqpVars, publishVars, consumerVars, completionVars, waitVars, lifeVars, excVars, queuesVars, submitVars, sendVars>>
notPool        == <<daemonVars, amqpVars, publishVars, consumerVars, completionVars, waitVars, lifeVars, excVars, queuesVars, submitVars, sendVars>>
notAmqp        == <<daemonVars, poolVars, publishVars, consumerVars, completionVars, waitVars, lifeVars, excVars, queuesVars, submitVars, sendVars>>
notPublish     == <<daemonVars, poolVars, amqpVars, consumerVars, completionVars, waitVars, lifeVars, excVars, queuesVars, submitVars, sendVars>>
notConsumer    == <<daemonVars, poolVars, amqpVars, publishVars, completionVars, waitVars, lifeVars, excVars, queuesVars, submitVars, sendVars>>
notCompletion  == <<daemonVars, poolVars, amqpVars, publishVars, consumerVars, waitVars, lifeVars, excVars, queuesVars, submitVars, sendVars>>
notWait        == <<daemonVars, poolVars, amqpVars, publishVars, consumerVars, completionVars, lifeVars, excVars, queuesVars, submitVars, sendVars>>
notLife        == <<daemonVars, poolVars, amqpVars, publishVars, consumerVars, completionVars, waitVars, excVars, queuesVars, submitVars, sendVars>>
notExc         == <<daemonVars, poolVars, amqpVars, publishVars, consumerVars, completionVars, waitVars, lifeVars, queuesVars, submitVars, sendVars>>
notQueues      == <<daemonVars, poolVars, amqpVars, publishVars, consumerVars, completionVars, waitVars, lifeVars, excVars, submitVars, sendVars>>
notSubmit      == <<daemonVars, poolVars, amqpVars, publishVars, consumerVars, completionVars, waitVars, lifeVars, excVars, queuesVars, sendVars>>
notSend        == <<daemonVars, poolVars, amqpVars, publishVars, consumerVars, completionVars, waitVars, lifeVars, excVars, queuesVars, submitVars>>

None == "None"

(***************************************************************************)
(* Bounds of the model.                                                    *)
(***************************************************************************)
MaxMsgs == 3
MaxClock == 5

\* Sequences over S of length at most n.
SeqUpTo(S, n) == UNION {[1..k -> S] : k \in 0..n}

(***************************************************************************)
(*                           THE WORKER DAEMON                             *)
(***************************************************************************)

\* The task registry (celery.registry.tasks): the names of the registered tasks.
tasks == {"add"}

\* Task names a message may carry.
TaskNames == {"add", "unregistered_task"}

\* Message bodies: a JSON object with the four keys, a JSON object that lacks
\* a key, and a body that is not JSON.
Bodies ==
    {[form |-> "ok", task |-> t] : t \in TaskNames}
        \cup {[form |-> "no_key", task |-> None], [form |-> "not_json", task |-> None]}

NoBody == [form |-> None, task |-> None]

\* The exceptions of the loop that derive from Exception (SystemExit and
\* KeyboardInterrupt do not).
ExceptionClasses ==
    {"ValueError", "KeyError", "TypeError", "EmptyQueue", "UnknownTask", "BrokerError"}

\* QUEUE_WAKEUP_AFTER, the seconds slept on an empty queue.
queue_wakeup_after == 1

\* The values EMPTY_MSG_EMIT_EVERY is configured with; 0 stands for unset.
EmitEveryChoices == {0, 2}

Msgs == 1..MaxMsgs

Event(e, m) == [ev |-> e, msg |-> m]

\* The places of the log where the daemon did e on message m.
At(e, m) == {i \in DOMAIN log : log[i] = Event(e, m)}

\* from_message without its call of message.reject().
from_message_never_rejects(b) == FALSE

\* TaskWrapper.from_message: what decoding message body b ends in.
\* "ok" is a TaskWrapper; the others are the exception raised.
from_message(b) ==
    IF b.form = "not_json" THEN "ValueError"        \* simplejson.loads
    ELSE IF b.form = "no_key" THEN "KeyError"       \* message_data.pop
    ELSE IF b.task \notin tasks THEN "UnknownTask"
    ELSE "ok"


\* from_message rejecting every message it decodes.
from_message_rejects_every_task(b) == b.form = "ok"

\* from_message calls message.reject() exactly when the task is not registered.
from_message_rejects(b) == b.form = "ok" /\ b.task \notin tasks

\* run() without its last clause, except Exception.
run_handler_without_generic_clause(exc) ==
    IF exc \in {"ValueError", "EmptyQueue", "UnknownTask"} THEN "periodic" ELSE "terminated"

\* The except clauses of TaskDaemon.run, in order: where exception exc,
\* raised inside the try block, leaves the loop.
run_handler(exc) ==
    IF exc = "ValueError" THEN "periodic"
    ELSE IF exc = "EmptyQueue" THEN "periodic"
    ELSE IF exc = "UnknownTask" THEN "periodic"
    ELSE IF exc \in ExceptionClasses THEN "periodic"
    ELSE "terminated"

\* execute_next_task whose except clause falls through to message.ack().
after_submit_falls_through(outcome) == "ack"

\* execute_next_task after task.execute_using_pool: the submission's outcome
\* decides whether message.ack() is reached ("ack") or the except clause
\* returns None.
after_submit(outcome) == IF outcome = "ok" THEN "ack" ELSE "return_none"

\* run() unpacks the return value of execute_next_task into three names:
\* unpacking None raises TypeError.
unpack_error(ret) == IF ret = "return_none" THEN "TypeError" ELSE "ok"

\* run() logging the notice on every empty poll once an interval is set.
emit_due_on_every_poll(every, last, now) == every # 0

\* The condition under which run() logs "Waiting for queue." at time now.
emit_due(every, last, now) ==
    /\ every # 0
    /\ (last = <<>> \/ last[1] = 0 \/ now > last[1] + every)

InitDaemon ==
    /\ pc = "periodic"
    /\ cur = 0
    /\ fetched = 0
    /\ body = [m \in Msgs |-> NoBody]
    /\ log = <<>>
    /\ clock = 1
    /\ last_empty_emit = <<>>
    /\ emit_every \in EmitEveryChoices
    /\ idle = <<>>

\* run_periodic_tasks returns; the loop enters the try block.
RunPeriodicTasks ==
    /\ UNCHANGED notDaemon
    /\ pc = "periodic"
    /\ pc' = "fetch"
    /\ cur' = 0
    /\ UNCHANGED <<fetched, body, log, clock, last_empty_emit, emit_every, idle>>

\* run_periodic_tasks raises: the call is outside the try block of run().
RunPeriodicTasksRaises ==
    /\ UNCHANGED notDaemon
    /\ pc = "periodic"
    /\ pc' = "terminated"
    /\ cur' = 0
    /\ UNCHANGED <<fetched, body, log, clock, last_empty_emit, emit_every, idle>>

\* One empty poll: the reading of time.time() the notice was decided on,
\* whether "Waiting for queue." was logged, the reading stored in
\* last_empty_emit when it was, the seconds given to time.sleep, and the
\* time at which the sleep returned.
Poll(now, emitted, stamp, slept, woke) ==
    [now |-> now, emitted |-> emitted, stamp |-> stamp, slept |-> slept, woke |-> woke]

\* task_consumer.fetch() returns None: EmptyQueue, the rate-limited notice,
\* the sleep.  d is the time between the two readings of time.time().
FetchEmpty ==
    /\ UNCHANGED notDaemon
    /\ pc = "fetch"
    /\ \E d \in 0..1 :
        LET due == emit_due(emit_every, last_empty_emit, clock)
        IN  /\ clock + d + queue_wakeup_after <= MaxClock
            /\ IF due
               THEN last_empty_emit' = <<clock + d>>
               ELSE UNCHANGED last_empty_emit
            /\ clock' = clock + d + queue_wakeup_after
            /\ idle' = Append(idle, Poll(clock, due, clock + d, queue_wakeup_after, clock'))
    /\ pc' = run_handler("EmptyQueue")
    /\ UNCHANGED <<cur, fetched, body, log, emit_every>>

\* task_consumer.fetch() raises a broker error.
FetchRaises ==
    /\ UNCHANGED notDaemon
    /\ pc = "fetch"
    /\ pc' = run_handler("BrokerError")
    /\ UNCHANGED <<cur, fetched, body, log, clock, last_empty_emit, emit_every, idle>>

\* task_consumer.fetch() returns a message, and from_message decodes it.
\* rej is the outcome of message.reject() when it is called.
FetchMessage ==
    /\ UNCHANGED notDaemon
    /\ pc = "fetch"
    /\ fetched < MaxMsgs
    /\ \E b \in Bodies, rej \in {"ok", "raise"} :
        LET m == fetched + 1
            r == from_message(b)
        IN  /\ fetched' = m
            /\ body' = [body EXCEPT ![m] = b]
            /\ cur' = m
            /\ IF from_message_rejects(b)
               THEN /\ log' = Append(log, Event(IF rej = "ok" THEN "reject" ELSE "reject_raised", m))
                    /\ pc' = run_handler(IF rej = "ok" THEN r ELSE "BrokerError")
               ELSE /\ rej = "ok"
                    /\ log' = log
                    /\ pc' = IF r = "ok" THEN "submit" ELSE run_handler(r)
    /\ UNCHANGED <<clock, last_empty_emit, emit_every, idle>>

\* task.execute_using_pool: the pool's apply_async returns or raises.
ExecuteUsingPool ==
    /\ UNCHANGED notDaemon
    /\ pc = "submit"
    /\ \E outcome \in {"ok", "raise"} :
        LET nxt == after_submit(outcome)
        IN  /\ log' = Append(log, Event(IF outcome = "ok" THEN "submit" ELSE "submit_raised", cur))
            /\ pc' = IF nxt = "ack" THEN "ack" ELSE run_handler(unpack_error(nxt))
    /\ UNCHANGED <<cur, fetched, body, clock, last_empty_emit, emit_every, idle>>

\* execute_next_task acknowledging the first message it ever fetched.
ack_target_first(m) == 1

\* execute_next_task, "message.ack()": the message acknowledged, m being
\* the message fetched in this call.
ack_target(m) == m

\* run() handing over a result whatever message.ack() did.
after_ack_adds_anyway(outcome) == "add"

\* execute_next_task after message.ack(): the tuple is returned to run(),
\* which goes on to results.add, or the exception of ack leaves
\* execute_next_task for the except clauses of run().
after_ack(outcome) == IF outcome = "ok" THEN "add" ELSE run_handler("BrokerError")

\* message.ack() returns or raises.
MessageAck ==
    /\ UNCHANGED notDaemon
    /\ pc = "ack"
    /\ \E outcome \in {"ok", "raise"} :
        /\ log' = Append(log, Event(IF outcome = "ok" THEN "ack" ELSE "ack_raised",
                                    ack_target(cur)))
        /\ pc' = after_ack(outcome)
    /\ UNCHANGED <<cur, fetched, body, clock, last_empty_emit, emit_every, idle>>

\* results.add(result, task_name, task_id), after the try block: it returns
\* and the loop goes on, or it raises and the exception leaves run().
ResultsAdd ==
    /\ UNCHANGED notDaemon
    /\ pc = "add"
    /\ \E outcome \in {"ok", "raise"} :
        /\ log' = Append(log, Event(IF outcome = "ok" THEN "add" ELSE "add_raised", cur))
        /\ pc' = IF outcome = "ok" THEN "periodic" ELSE "terminated"
    /\ UNCHANGED <<cur, fetched, body, clock, last_empty_emit, emit_every, idle>>

NextDaemon ==
    \/ RunPeriodicTasks
    \/ RunPeriodicTasksRaises
    \/ FetchEmpty
    \/ FetchRaises
    \/ FetchMessage
    \/ ExecuteUsingPool
    \/ MessageAck
    \/ ResultsAdd

\* A worker of the daemon's pool finishes the task submitted for message m,
\* in any order and at any time after the submission.
TaskFinishes ==
    /\ UNCHANGED notCompletion
    /\ \E m \in Msgs :
        /\ At("submit", m) # {}
        /\ m \notin finished
        /\ finished' = finished \cup {m}

InitCompletion == finished = {}

\* The daemon together with the workers of its pool.
NextDaemonPool ==
    \/ RunPeriodicTasks
    \/ RunPeriodicTasksRaises
    \/ FetchEmpty
    \/ FetchRaises
    \/ FetchMessage
    \/ ExecuteUsingPool
    \/ MessageAck
    \/ ResultsAdd
    \/ TaskFinishes

(***************************************************************************)
(*                            THE PROCESS POOL                             *)
(***************************************************************************)
MaxCallbacks == 2

\* What a callback does when it is called.
Behaviours == {"returns", "raises"}

CallbackLists == SeqUpTo(Behaviours, MaxCallbacks)

\* Return values of a target, exceptions a target raises (the worker hands
\* them back wrapped in an ExceptionInfo), and errors of the worker itself.
Values == {5}
TaskExceptions == {"ValueError", "SystemExit", "KeyboardInterrupt"}
WorkerErrors == {"WorkerLostError"}

Value(v) == [kind |-> "value", val |-> v]
ExceptionInfo(exc) == [kind |-> "einfo", val |-> exc]

\* What the pool collects for a work item.
RetValues == {Value(v) : v \in Values} \cup {ExceptionInfo(e) : e \in TaskExceptions}

\* One call of a callback: the list it is in, its place there, its argument.
Call(list, i, arg) == [list |-> list, idx |-> i, arg |-> arg]

\* What running a piece of the result-collection path did: the callbacks it
\* called, the lists it went through, the exception it let out, the errors
\* it logged.
Effect(calls, fired, raised, logged) ==
    [calls |-> calls, fired |-> fired, raised |-> raised, logged |-> logged]

\* The check of on_ready with KeyboardInterrupt left out.
is_fatal_system_exit_only(exc) == exc = "SystemExit"

\* isinstance(ret_value.exception, (SystemExit, KeyboardInterrupt))
is_fatal(exc) == exc \in {"SystemExit", "KeyboardInterrupt"}

\* safe_apply_callback without its try block.
safe_apply_callback_uncaught(fun) == IF fun = "raises" THEN "CallbackError" ELSE None

\* TaskPool.safe_apply_callback(fun, *args): the exception that leaves the
\* call.  The bare except catches whatever fun raises.
safe_apply_callback(fun) == None

\* fun(einfo), called directly as on_worker_error does.
apply_callback(fun) == IF fun = "raises" THEN "CallbackError" ELSE None

\* The errors safe_apply_callback logs for the callbacks funs.
errors_logged(funs) == Cardinality({i \in DOMAIN funs : funs[i] = "raises"})

\* The exception that leaves the call of fun: through safe_apply_callback
\* (on_ready) or called directly (on_worker_error).
leaves(fun, safe) == IF safe THEN safe_apply_callback(fun) ELSE apply_callback(fun)

\* A list comprehension [call(f, arg) for f in funs], from the i-th callback
\* on: every callback is called in order until a call lets an exception out.
RECURSIVE comprehension(_, _, _, _, _)
comprehension(list, funs, arg, safe, i) ==
    IF i > Len(funs) THEN Effect(<<>>, <<list>>, None, 0)
    ELSE IF leaves(funs[i], safe) # None
         THEN Effect(<<Call(list, i, arg)>>, <<list>>, leaves(funs[i], safe), 0)
         ELSE LET rest == comprehension(list, funs, arg, safe, i + 1)
              IN  Effect(<<Call(list, i, arg)>> \o rest.calls, <<list>>, rest.raised, 0)

\* The list on_ready goes through for a collected value that is no fatal
\* exception: errbacks for an ExceptionInfo, callbacks otherwise.
on_ready_list(ret_value) == IF ret_value.kind = "einfo" THEN "errbacks" ELSE "callbacks"

\* on_ready without its else: the callbacks run after the errbacks too.
on_ready_without_else(callbacks, errbacks, ret_value) ==
    IF ret_value.kind = "einfo" /\ is_fatal(ret_value.val)
    THEN Effect(<<>>, <<>>, ret_value.val, 0)
    ELSE LET e1 == IF ret_value.kind = "einfo"
                   THEN comprehension("errbacks", errbacks, ret_value, TRUE, 1)
                   ELSE Effect(<<>>, <<>>, None, 0)
             e2 == comprehension("callbacks", callbacks, ret_value, TRUE, 1)
         IN  Effect(e1.calls \o e2.calls, e1.fired \o e2.fired, None,
                    errors_logged(errbacks) + errors_logged(callbacks))

\* TaskPool.on_ready(callbacks, errbacks, ret_value)
on_ready(callbacks, errbacks, ret_value) ==
    IF ret_value.kind = "einfo" /\ is_fatal(ret_value.val)
    THEN Effect(<<>>, <<>>, ret_value.val, 0)
    ELSE LET list == on_ready_list(ret_value)
             funs == IF list = "errbacks" THEN errbacks ELSE callbacks
             e == comprehension(list, funs, ret_value, TRUE, 1)
         IN  Effect(e.calls, e.fired, e.raised, errors_logged(funs))

\* TaskPool.on_worker_error(errbacks, exc)
on_worker_error(errbacks, exc) ==
    comprehension("errbacks", errbacks, ExceptionInfo(exc), FALSE, 1)

NoEffect == Effect(<<>>, <<>>, None, 0)
NoRet == [kind |-> None, val |-> None]

FreeItem ==
    [state |-> "free", callbacks |-> <<>>, errbacks |-> <<>>,
     path |-> None, ret |-> NoRet, effect |-> NoEffect]

\* The underlying pool hands a work item's result to one of the two
\* callbacks apply_async gave it, once, when the item completes.
result_due == item.state = "pending"

\* on_ready and on_worker_error are bound by apply_async to the two lists of
\* one work item and touch nothing else of the pool: the model follows one
\* work item at a time.
InitPool == item = FreeItem

\* TaskPool.apply_async(target, args, kwargs, callbacks, errbacks)
ApplyAsync ==
    /\ UNCHANGED notPool
    /\ item.state = "free"
    /\ \E cbs \in CallbackLists, ebs \in CallbackLists :
        item' = [FreeItem EXCEPT !.state = "pending", !.callbacks = cbs, !.errbacks = ebs]

\* The pool collected ret_value for the work item: callback=on_ready.
OnReady ==
    /\ UNCHANGED notPool
    /\ result_due
    /\ \E ret_value \in RetValues :
        item' = [item EXCEPT !.state = "done", !.path = "on_ready", !.ret = ret_value,
                             !.effect = on_ready(item.callbacks, item.errbacks, ret_value)]

\* The worker of the work item failed: error_callback=on_worker_error.
OnWorkerError ==
    /\ UNCHANGED notPool
    /\ result_due
    /\ \E exc \in WorkerErrors :
        item' = [item EXCEPT !.state = "done", !.path = "on_worker_error",
                             !.ret = ExceptionInfo(exc),
                             !.effect = on_worker_error(item.errbacks, exc)]

\* The work item is destroyed once its callbacks have run.
Release ==
    /\ UNCHANGED notPool
    /\ item.state = "done"
    /\ item' = FreeItem

NextPool ==
    \/ ApplyAsync
    \/ OnReady
    \/ OnWorkerError
    \/ Release

(***************************************************************************)
(*                  THE PUBLISHER AND ITS DECLARATIONS                     *)
(***************************************************************************)
MaxPublishers == 2
MaxFailures == 1

\* The threads of the process that obtain and declare publishers.
Threads == {"main", "other"}

\* CELERY_DEFAULT_EXCHANGE, the exchange of the default queue, and another
\* exchange a caller may name.
default_exchange == "celery"
Exchanges == {default_exchange, "other"}

\* The kinds of value a caller passes as task_args and as task_kwargs; "dict"
\* and "list" are not empty.
ArgKinds == {"none", "list", "tuple", "dict", "empty_dict"}
KwargKinds == {"none", "dict", "list", "empty_list"}

\* A publisher: its exchange and how it was made, "class" by the
\* constructor, "amqp" by AMQP.TaskPublisher, which has not returned it yet
\* while it is "pending".  Two publishers of the same exchange made the
\* same way are of one kind.
Publishers == [exchange : Exchanges, via : {"class", "amqp"}]
NoPublisher == [exchange |-> None, via |-> None]

\* A thread that is in no call, and a thread whose call on a publisher
\* waits for the broker to answer: the opening of the consumer set, its
\* closing, or the declare of the exchange.
Idle == [pc |-> "idle", publisher |-> NoPublisher]

\* The last message sent: how its publisher was made, the exchange, and
\* the flag as it was when it was sent.
NoSend == [via |-> None, exchange |-> None, queues_declared |-> FALSE]

\* Broker calls that have failed so far.
failures ==
    broker.cset_open_raised + broker.cset_close_raised
        + broker.declare_raised[default_exchange] + broker.declare_raised["other"]

\* cset_open_ok, cset_close_ok: the consumer sets AMQP.TaskPublisher
\* opened and closed; cset_direct: whether a consumer set was opened over
\* the configured queues from elsewhere.
InitAmqp ==
    /\ exchanges_declared = {}
    /\ queues_declared = FALSE
    /\ publishers = [k \in Publishers |-> 0]
    /\ threads = [t \in Threads |-> Idle]
    /\ overlapped = FALSE
    /\ broker = [declare_ok |-> [e \in Exchanges |-> 0],
                 declare_raised |-> [e \in Exchanges |-> 0],
                 cset_open_ok |-> 0, cset_open_raised |-> 0,
                 cset_close_ok |-> 0, cset_close_raised |-> 0,
                 cset_direct |-> FALSE,
                 last_sent |-> NoSend]

\* declare without the memo.
declare_always(exchange, declared) == TRUE

\* TaskPublisher.declare: whether the broker is asked to declare exchange.
declare_needed(exchange, declared) == exchange \notin declared

\* declare adding the exchange before the broker has answered.
after_declare_adds_first(declared, exchange, outcome) == declared \cup {exchange}

\* TaskPublisher.declare: _exchanges_declared after the broker's declare
\* ended in outcome.
after_declare(declared, exchange, outcome) ==
    IF outcome = "ok" THEN declared \cup {exchange} ELSE declared

\* TaskPublisher.declare on publisher, up to the call of the broker (line
\* 27): the thread waits for the broker's declare, or the call has
\* returned.
declare(publisher, declared) ==
    IF declare_needed(publisher.exchange, declared)
    THEN [pc |-> "declare", publisher |-> publisher]
    ELSE Idle

\* AMQP.TaskPublisher setting the flag whatever the consumer set did.
after_consumer_set_always(open, close) == TRUE

\* AMQP.TaskPublisher: whether _queues_declared is set after
\* get_consumer_set ended in open and consumers.close() in close.
after_consumer_set(open, close) == open = "ok" /\ close = "ok"

Outcomes == {"ok", "raise"}

\* The publishers made so far: those their callers hold and those a call
\* is about.
publishers_made ==
    LET held == [k \in Publishers |-> publishers[k]]
        RECURSIVE sum(_)
        sum(ks) == IF ks = {} THEN 0
                   ELSE LET k == CHOOSE k \in ks : TRUE IN held[k] + sum(ks \ {k})
    IN  sum(Publishers) + Cardinality({t \in Threads : threads[t] # Idle})

\* A call begins in the main thread, or in the other one while the main
\* thread waits for the broker.
begins(t) ==
    /\ threads[t] = Idle
    /\ t = "other" => threads["main"] # Idle

\* Whether a call that begins in thread t finds another one waiting.
overlaps(t) == \E u \in Threads \ {t} : threads[u] # Idle

\* The publishers held once a caller is given publisher, or gives it to a
\* call.
with(held, publisher) == [held EXCEPT ![publisher] = @ + 1]
without(held, publisher) == [held EXCEPT ![publisher] = @ - 1]

\* The publishers held when a call on publisher went on to c: when it has
\* returned, its caller holds the publisher.
returned(publisher, c) ==
    IF c = Idle
    THEN with(publishers, [publisher EXCEPT !.via = IF @ = "pending" THEN "amqp" ELSE @])
    ELSE publishers

\* The publishers held when a call on publisher has raised: one that
\* AMQP.TaskPublisher made is lost.
after_raise(publisher) ==
    IF publisher.via = "pending" THEN publishers ELSE with(publishers, publisher)

\* TaskPublisher(...): the constructor alone (auto_declare is False).
NewTaskPublisher ==
    /\ UNCHANGED notAmqp
    /\ \E e \in Exchanges :
        /\ publishers_made < MaxPublishers
        /\ publishers' = with(publishers, [exchange |-> e, via |-> "class"])
        /\ UNCHANGED <<exchanges_declared, queues_declared, threads, overlapped, broker>>

\* AMQP.TaskPublisher(exchange=e) up to its first wait (lines 147-158, or
\* 147-161 and 27-28): the publisher is made; if the flag is unset the
\* consumer set is being opened; otherwise the publisher is declared.
AmqpTaskPublisher ==
    /\ UNCHANGED notAmqp
    /\ \E t \in Threads, e \in Exchanges :
        LET publisher == [exchange |-> e, via |-> "pending"]
            c == IF ~queues_declared THEN [pc |-> "open", publisher |-> publisher]
                 ELSE declare(publisher, exchanges_declared)
        IN  /\ begins(t)
            /\ publishers_made < MaxPublishers
            /\ threads' = [threads EXCEPT ![t] = c]
            /\ publishers' = returned(publisher, c)
            /\ overlapped' = (overlapped \/ overlaps(t))
            /\ UNCHANGED <<exchanges_declared, queues_declared, broker>>

\* get_consumer_set(publisher.connection) (line 158) ends: it has declared
\* every configured queue and consumers.close() is called, or it raises
\* and ends the call of AMQP.TaskPublisher.
ConsumerSetOpened ==
    /\ UNCHANGED notAmqp
    /\ \E t \in Threads, open \in Outcomes :
        /\ threads[t].pc = "open"
        /\ failures < MaxFailures \/ open = "ok"
        /\ IF open = "ok"
           THEN /\ broker' = [broker EXCEPT !.cset_open_ok = @ + 1]
                /\ threads' = [threads EXCEPT ![t].pc = "close"]
           ELSE /\ broker' = [broker EXCEPT !.cset_open_raised = @ + 1]
                /\ threads' = [threads EXCEPT ![t] = Idle]
        /\ UNCHANGED <<exchanges_declared, queues_declared, publishers, overlapped>>

\* consumers.close() (line 159) ends: the flag is set (line 160) and the
\* publisher declared (line 161), or it raises and ends the call.
ConsumerSetClosed ==
    /\ UNCHANGED notAmqp
    /\ \E t \in Threads, close \in Outcomes :
        LET c == declare(threads[t].publisher, exchanges_declared)
        IN  /\ threads[t].pc = "close"
            /\ failures < MaxFailures \/ close = "ok"
            /\ queues_declared' = IF after_consumer_set("ok", close) THEN TRUE
                                  ELSE queues_declared
            /\ IF close = "ok"
               THEN /\ broker' = [broker EXCEPT !.cset_close_ok = @ + 1]
                    /\ threads' = [threads EXCEPT ![t] = c]
                    /\ publishers' = returned(threads[t].publisher, c)
               ELSE /\ broker' = [broker EXCEPT !.cset_close_raised = @ + 1]
                    /\ threads' = [threads EXCEPT ![t] = Idle]
                    /\ UNCHANGED publishers
            /\ UNCHANGED <<exchanges_declared, overlapped>>

\* publisher.declare() up to its wait (lines 27-28), on a publisher its
\* caller holds: a publisher is used by one thread at a time.
Declare ==
    /\ UNCHANGED notAmqp
    /\ \E t \in Threads, publisher \in Publishers :
        LET c == declare(publisher, exchanges_declared)
        IN  /\ begins(t)
            /\ publishers[publisher] > 0
            /\ threads' = [threads EXCEPT ![t] = c]
            /\ publishers' = IF c = Idle THEN publishers ELSE without(publishers, publisher)
            /\ overlapped' = (overlapped \/ overlaps(t))
            /\ UNCHANGED <<exchanges_declared, queues_declared, broker>>

\* The broker's declare (line 28) ends: the exchange is added to the set
\* (line 29) and declare() returns, and AMQP.TaskPublisher with it; or it
\* raises and ends the call.
DeclareReturns ==
    /\ UNCHANGED notAmqp
    /\ \E t \in Threads, decl \in Outcomes :
        LET publisher == threads[t].publisher
            e == publisher.exchange
        IN  /\ threads[t].pc = "declare"
            /\ failures < MaxFailures \/ decl = "ok"
            /\ broker' = IF decl = "ok"
                         THEN [broker EXCEPT !.declare_ok[e] = @ + 1]
                         ELSE [broker EXCEPT !.declare_raised[e] = @ + 1]
            /\ exchanges_declared' = after_declare(exchanges_declared, e, decl)
            /\ threads' = [threads EXCEPT ![t] = Idle]
            /\ publishers' = IF decl = "ok" THEN returned(publisher, Idle)
                             ELSE after_raise(publisher)
            /\ UNCHANGED <<queues_declared, overlapped>>

\* AMQP.get_consumer_set(connection) called from outside
\* AMQP.TaskPublisher (the worker's consumer): every configured queue is
\* declared, or the call raises; the flag is not touched.
GetConsumerSet ==
    /\ UNCHANGED notAmqp
    /\ \E open \in Outcomes :
        /\ failures < MaxFailures \/ open = "ok"
        /\ broker' = IF open = "ok"
                     THEN [broker EXCEPT !.cset_direct = TRUE]
                     ELSE [broker EXCEPT !.cset_open_raised = @ + 1]
        /\ UNCHANGED <<exchanges_declared, queues_declared, publishers, threads, overlapped>>

\* delay_task: the type checks of task_args and task_kwargs, made after
\* "task_args or []" and "task_kwargs or {}" replaced the values that are
\* false (None, and the empty ones).
valid_args(args, kwargs) ==
    /\ args \in {"none", "empty_dict", "list", "tuple"}
    /\ kwargs \in {"none", "empty_list", "dict"}

\* publisher.delay_task(name, task_args, task_kwargs, exchange=e): a type
\* error is raised before anything is sent; otherwise the message goes to the
\* exchange of the call, which stays the publisher's exchange.
DelayTask ==
    /\ UNCHANGED notAmqp
    /\ \E publisher \in Publishers, e \in Exchanges \cup {None},
          valid \in {valid_args(args, kwargs) : args \in ArgKinds, kwargs \in KwargKinds} :
        /\ publishers[publisher] > 0
        /\ IF valid
           THEN LET ex == IF e # None THEN e ELSE publisher.exchange
                IN  /\ publishers' = with(without(publishers, publisher),
                                          [publisher EXCEPT !.exchange = ex])
                    /\ broker' = [broker EXCEPT !.last_sent =
                            [via |-> publisher.via, exchange |-> ex,
                             queues_declared |-> queues_declared]]
           ELSE UNCHANGED <<publishers, broker>>
        /\ UNCHANGED <<exchanges_declared, queues_declared, threads, overlapped>>

NextAmqp ==
    \/ NewTaskPublisher
    \/ AmqpTaskPublisher
    \/ ConsumerSetOpened
    \/ ConsumerSetClosed
    \/ Declare
    \/ DeclareReturns
    \/ GetConsumerSet
    \/ DelayTask

(***************************************************************************)
(*              THE TASK MESSAGE (TaskPublisher.delay_task)                *)
(***************************************************************************)
\* The most a second reading of datetime.now() is ahead of the first one.
MaxDrift == 1

\* An optional value: <<>> for None, <<v>> for the value v.
Opt(S) == {<<>>} \cup {<<v>> : v \in S}

\* Seconds a caller passes as countdown, and as an integer expires.
Countdowns == {0, 2}
ExpiresInts == {0, 3}

\* Absolute times a caller passes as eta or as expires, and the readings of
\* datetime.now().
Datetimes == {20}
Readings == {10, 11}
LaterReadings == {r + d : r \in Readings, d \in 0..MaxDrift}

\* The expires argument: None, an int of seconds, or a datetime.
ExpiresChoices ==
    {[kind |-> "none", val |-> 0]}
        \cup {[kind |-> "int", val |-> e] : e \in ExpiresInts}
        \cup {[kind |-> "datetime", val |-> t] : t \in Datetimes}

\* The calls of delay_task: now1 is what datetime.now() returns at the
\* countdown conversion, now2 what it returns at the expires conversion.
Calls ==
    {c \in [args : ArgKinds, kwargs : KwargKinds, countdown : Opt(Countdowns),
            eta : Opt(Datetimes), expires : ExpiresChoices,
            now1 : Readings, now2 : LaterReadings, send : {"ok", "raise"}] :
        c.now2 \in c.now1 .. c.now1 + MaxDrift}

\* datetime.isoformat(): the text of the time t.
isoformat(t) == [iso |-> t]

\* "if countdown:", true of a countdown that is neither None nor 0.
countdown_given(countdown) == countdown # <<>> /\ countdown[1] # 0

\* delay_task, lines 39-42: now and eta after the countdown conversion.
convert_countdown(c) ==
    IF countdown_given(c.countdown)
    THEN [now |-> <<c.now1>>, eta |-> <<c.now1 + c.countdown[1]>>]
    ELSE [now |-> <<>>, eta |-> c.eta]

\* delay_task, lines 49-51: expires after the conversion of an int, now
\* being what the countdown conversion left ("now = now or datetime.now()").
convert_expires(c, now) ==
    IF c.expires.kind = "int"
    THEN <<(IF now # <<>> THEN now[1] ELSE c.now2) + c.expires.val>>
    ELSE IF c.expires.kind = "datetime" THEN <<c.expires.val>> ELSE <<>>

\* "x and x.isoformat()" of an optional datetime.
and_isoformat(t) == IF t = <<>> THEN <<>> ELSE <<isoformat(t[1])>>

NoMessage == [eta |-> <<>>, expires |-> <<>>]

\* delay_task(c): the exception that leaves the call (None when it returns),
\* whether self.send returned, whether task_sent was sent, and the eta and
\* expires of message_data.
delay_task(c) ==
    LET conv == convert_countdown(c)
        message == [eta |-> and_isoformat(conv.eta),
                    expires |-> and_isoformat(convert_expires(c, conv.now))]
    IN  IF ~valid_args(c.args, c.kwargs)
        THEN [called |-> TRUE, call |-> c, raised |-> "ValueError",
              sent |-> FALSE, task_sent |-> FALSE, message |-> NoMessage]
        ELSE IF c.send # "ok"
        THEN [called |-> TRUE, call |-> c, raised |-> "BrokerError",
              sent |-> FALSE, task_sent |-> FALSE, message |-> message]
        ELSE [called |-> TRUE, call |-> c, raised |-> None,
              sent |-> TRUE, task_sent |-> TRUE, message |-> message]

NoCall ==
    [args |-> "none", kwargs |-> "none", countdown |-> <<>>, eta |-> <<>>,
     expires |-> [kind |-> "none", val |-> 0], now1 |-> 0, now2 |-> 0,
     send |-> "ok"]

InitPublish ==
    published = [called |-> FALSE, call |-> NoCall, raised |-> None,
                 sent |-> FALSE, task_sent |-> FALSE, message |-> NoMessage]

\* publisher.delay_task(name, task_args, task_kwargs, countdown, eta,
\* expires): the message built and what became of it.  A call depends on no
\* earlier call, so one call is followed.
DelayTaskMessage ==
    /\ UNCHANGED notPublish
    /\ ~published.called
    /\ \E c \in Calls : published' = delay_task(c)

(***************************************************************************)
(*            THE CONSUMER SET (ConsumerSet._receive_callback)             *)
(***************************************************************************)
\* Bodies of raw messages: two that decode, two that do not.
RawBodies == {"[2, 2]", "{\"x\": 1}", "{\"x\": ", ""}

\* Delivery tags of raw messages.
Tags == {1, 2}

\* message.decode(): the value decoded from a body, None for a body that
\* makes decode raise.
decode(b) ==
    IF b = "[2, 2]" THEN "list of 2, 2"
    ELSE IF b = "{\"x\": 1}" THEN "dict of x: 1"
    ELSE None

\* What on_decode_error is: None, or a handler that returns or raises.
DecodeErrorHandlers == {"none", "returns", "raises"}

\* The raw messages that arrive and the consumer set they arrive at.
Arrivals ==
    [tag : Tags, body : RawBodies, acknowledged : BOOLEAN, auto_ack : BOOLEAN,
     ack : {"ok", "raise"}, on_decode_error : DecodeErrorHandlers,
     receive : {"returns", "raises"}]

\* _receive_callback with an except clause that always re-raises.
handler_registered_never(on_decode_error) == FALSE

\* "if self.on_decode_error:"
handler_registered(on_decode_error) == on_decode_error # "none"

\* _receive_callback acknowledging whatever message.acknowledged says.
auto_acks_also_acknowledged(a) == a.auto_ack

\* "if self.auto_ack and not message.acknowledged:"
auto_acks(a) == a.auto_ack /\ ~a.acknowledged

\* _receive_callback(raw_message): whether message.ack() was called, how
\* decode ended, the calls of on_decode_error and of receive with their
\* arguments, the exception that leaves the callback (None when it
\* returns), and the calls the callback made, in the order of the code.
receive_callback(a) ==
    LET acked == IF auto_acks(a) THEN <<"ack">> ELSE <<>>
        base == [called |-> TRUE, arrival |-> a, ack_called |-> auto_acks(a),
                 decode |-> "not reached", handler_calls |-> <<>>,
                 receive_calls |-> <<>>, raised |-> None, order |-> acked]
        decoded == decode(a.body)
    IN  IF auto_acks(a) /\ a.ack # "ok"
        THEN [base EXCEPT !.raised = "BrokerError"]
        ELSE IF decoded = None
        THEN IF handler_registered(a.on_decode_error)
             THEN [base EXCEPT
                     !.decode = "raised",
                     !.handler_calls = <<[message |-> a.tag, exc |-> "DecodeError"]>>,
                     !.raised = IF a.on_decode_error = "raises"
                                THEN "HandlerError" ELSE None,
                     !.order = acked \o <<"decode", "on_decode_error">>]
             ELSE [base EXCEPT !.decode = "raised", !.raised = "DecodeError",
                               !.order = acked \o <<"decode">>]
        ELSE [base EXCEPT
                !.decode = "returned",
                !.receive_calls = <<[decoded |-> decoded, message |-> a.tag]>>,
                !.raised = IF a.receive = "raises" THEN "ReceiveError" ELSE None,
                !.order = acked \o <<"decode", "receive">>]

NoArrival ==
    [tag |-> 0, body |-> "", acknowledged |-> FALSE, auto_ack |-> FALSE,
     ack |-> "ok", on_decode_error |-> "none", receive |-> "returns"]

InitConsumer ==
    received = [called |-> FALSE, arrival |-> NoArrival, ack_called |-> FALSE,
                decode |-> "not reached", handler_calls |-> <<>>,
                receive_calls |-> <<>>, raised |-> None, order |-> <<>>]

\* A raw message arrives: consumer_set._receive_callback(raw_message).  A
\* message is handled on its own, so one arrival is followed.
ReceiveCallback ==
    /\ UNCHANGED notConsumer
    /\ ~received.called
    /\ \E a \in Arrivals : received' = receive_callback(a)

(***************************************************************************)
(*               THE RESULT BACKEND (BaseBackend.wait_for)                 *)
(***************************************************************************)
\* The last reading of the clock that is modelled.
MaxWaitClock == 4

\* The finite timeouts a caller passes; <<>> stands for timeout=None.
Timeouts == {1, 2}

\* The statuses store_result is called with, and PENDING, the status of a
\* task nothing was stored for.
Statuses == {"PENDING", "RETRY", "DONE", "FAILURE"}

\* What is stored with a status: the return value with DONE, the exception
\* with FAILURE and RETRY.
StoredResult(status) ==
    IF status = "DONE" THEN 5
    ELSE IF status = "FAILURE" THEN "KeyError"
    ELSE IF status = "RETRY" THEN "RetryTaskError"
    ELSE None

\* wait_for taking RETRY for a failure.
after_get_status_retry_raises(status) ==
    IF status = "DONE" THEN "return"
    ELSE IF status \in {"FAILURE", "RETRY"} THEN "raise"
    ELSE "tick"

\* wait_for, lines 135-140: what follows the status read by get_status.
after_get_status(status) ==
    IF status = "DONE" THEN "return"
    ELSE IF status = "FAILURE" THEN "raise"
    ELSE "tick"

\* TimeoutTimer.tick: whether the timeout given to TimeoutTimer(timeout) at
\* time_start has elapsed at now.
timed_out(timeout, time_start, now) ==
    timeout # <<>> /\ now > time_start + timeout[1]

\* How a call ended: returned or raised, the value, and the status that
\* value was stored with (None for an exception wait_for made itself).
NoOutcome == [kind |-> None, val |-> <<>>, stored_as |-> None]

\* "return self.get_result(task_id)"
return_result(meta) == [kind |-> "returned", val |-> meta.result, stored_as |-> meta.status]

\* "raise self.get_result(task_id)": the exception stored with FAILURE or
\* RETRY is raised; raising the return value stored with DONE is a
\* TypeError.
raise_result(meta) ==
    IF meta.status = "DONE"
    THEN [kind |-> "raised", val |-> <<"TypeError">>, stored_as |-> meta.status]
    ELSE [kind |-> "raised", val |-> meta.result, stored_as |-> meta.status]

InitWait ==
    wait = [pc |-> "idle", timeout |-> <<>>, time_start |-> 0, now |-> 0,
            meta |-> [status |-> "PENDING", result |-> <<>>],
            status |-> None, outcome |-> NoOutcome]

\* backend.wait_for(task_id, timeout): TimeoutTimer(timeout) is made.
WaitFor ==
    /\ UNCHANGED notWait
    /\ wait.pc = "idle"
    /\ \E timeout \in Opt(Timeouts) :
        /\ timeout # <<>> => wait.now + timeout[1] < MaxWaitClock
        /\ wait' = [wait EXCEPT !.pc = "get_status", !.timeout = timeout,
                                !.time_start = wait.now]

\* status = self.get_status(task_id), and the two tests of it.
GetStatus ==
    /\ UNCHANGED notWait
    /\ wait.pc = "get_status"
    /\ wait' = [wait EXCEPT !.status = wait.meta.status,
                            !.pc = after_get_status(wait.meta.status)]

\* return self.get_result(task_id) / raise self.get_result(task_id): the
\* result is read after the status, and is what is stored by then.
GetResult ==
    /\ UNCHANGED notWait
    /\ wait.pc \in {"return", "raise"}
    /\ wait' = [wait EXCEPT
                  !.outcome = IF wait.pc = "return" THEN return_result(wait.meta)
                              ELSE raise_result(wait.meta),
                  !.pc = "done"]

\* timeout_timer.tick(): TimeoutError once the timeout has elapsed,
\* otherwise the loop polls again.
Tick ==
    /\ UNCHANGED notWait
    /\ wait.pc = "tick"
    /\ IF timed_out(wait.timeout, wait.time_start, wait.now)
       THEN wait' = [wait EXCEPT !.outcome = [kind |-> "raised", val |-> <<"TimeoutError">>,
                                              stored_as |-> None],
                                 !.pc = "done"]
       ELSE wait' = [wait EXCEPT !.pc = "get_status"]

\* The clock advances.
TimePasses ==
    /\ UNCHANGED notWait
    /\ wait.now < MaxWaitClock
    /\ wait' = [wait EXCEPT !.now = @ + 1]

\* mark_as_retry, mark_as_done or mark_as_failure call store_result, which
\* BaseBackend leaves to the backends.  A task status record is written
\* once per terminal status: once DONE or FAILURE is stored the record
\* is not written again; RETRY may be followed by RETRY, DONE or FAILURE.
StoreResult ==
    /\ UNCHANGED notWait
    /\ wait.meta.status \in {"PENDING", "RETRY"}
    /\ \E status \in {"RETRY", "DONE", "FAILURE"} :
        wait' = [wait EXCEPT !.meta = [status |-> status,
                                       result |-> <<StoredResult(status)>>]]

NextWait ==
    \/ WaitFor
    \/ GetStatus
    \/ GetResult
    \/ Tick
    \/ TimePasses
    \/ StoreResult

(***************************************************************************)
(*          THE POOL'S LIFE (TaskPool.start / stop / terminate)            *)
(***************************************************************************)
\* The most work items in flight in the underlying pool.
MaxInFlight == 2

\* The most calls of stop() and terminate() that wait at once, stop() in
\* join() and terminate() in the underlying pool's terminate().
MaxWaiting == 2

\* The last call on the TaskPool that ended: which, the calls it made on
\* the underlying pool in order, _pool and the pool's state and work in
\* flight when it began, the work it waited for and the work thrown away
\* meanwhile, whether it raised, whether it was left alone while it waited
\* (no start() was called, no terminate() began, no other call cleared
\* self._pool), and whether the _pool it cleared was another pool than the
\* one it closed or terminated.
Called(op, calls, before, waited, dropped, raised) ==
    [op |-> op, calls |-> calls, made_before |-> before.made,
     state_before |-> before.state, in_flight_before |-> before.in_flight,
     waited |-> waited, dropped |-> dropped, raised |-> raised,
     undisturbed |-> TRUE, released_other |-> FALSE]

NoPool == [made |-> FALSE, state |-> None, in_flight |-> 0]

\* A call of stop() that waits in join(), with the pool it joins:
\* self._pool still (current), or a pool self._pool refers to no more, and
\* then the work in flight in it.
Joining(before) ==
    [op |-> "stop", before |-> before, current |-> TRUE, in_flight |-> 0,
     waited |-> 0, dropped |-> 0, undisturbed |-> TRUE]

\* A call of terminate() that waits in self._pool.terminate() (line 59):
\* the work in flight in the pool was thrown away.
Terminating(before) ==
    [op |-> "terminate", before |-> before, current |-> TRUE, in_flight |-> 0,
     waited |-> 0, dropped |-> before.in_flight, undisturbed |-> TRUE]

\* made, state, in_flight: the pool self._pool refers to.  waits: the
\* calls of stop() and terminate() that wait, a bag.
InitLife ==
    taskpool = [made |-> FALSE, state |-> None, in_flight |-> 0,
                waits |-> EmptyBag,
                last |-> Called(None, <<>>, NoPool, 0, 0, FALSE)]

\* stop() closing whatever state the underlying pool is in.
stop_applies_whatever_state(made, state) == made

\* stop(): "if self._pool is not None and self._pool._state == RUN"
stop_applies(made, state) == made /\ state = "RUN"

\* terminate(): "if self._pool is not None"
terminate_applies(made) == made

\* The pool self._pool refers to, as a call finds it.
ThePool == [made |-> taskpool.made, state |-> taskpool.state,
            in_flight |-> taskpool.in_flight]

\* self._pool is made to refer to another pool, or to none: the pool a
\* waiting call joins or terminates is kept apart, with the work in flight
\* in it.
detached(call, in_flight) ==
    [call EXCEPT !.current = FALSE,
                 !.undisturbed = FALSE,
                 !.in_flight = IF call.current THEN in_flight ELSE @]

\* The calls that wait, once self._pool was replaced, the pool it referred
\* to being left with in_flight work items.
all_detached(waits, in_flight) ==
    BagOfAll(LAMBDA call : detached(call, in_flight), waits)

\* The calls that wait, once self._pool.terminate() began: a stop() that
\* joins this pool has no more work to wait for, in_flight work items
\* being thrown away.
all_terminated(waits, in_flight) ==
    BagOfAll(LAMBDA call : [call EXCEPT
                              !.undisturbed = FALSE,
                              !.dropped = IF call.current /\ call.op = "stop"
                                          THEN @ + in_flight ELSE @],
             waits)

\* The calls that wait, without the one that ends.
others(waits, call) == waits (-) SetToBag({call})

\* start(): self._pool = self.Pool(...), a new pool that runs.  A pool
\* that stop() joins goes on with its work.
Start ==
    /\ UNCHANGED notLife
    /\ taskpool' = [made |-> TRUE, state |-> "RUN", in_flight |-> 0,
                    waits |-> all_detached(taskpool.waits, taskpool.in_flight),
                    last |-> Called("start", <<"Pool">>, ThePool, 0, 0, FALSE)]

\* apply_async on a running pool: one more work item in flight.
PoolApplyAsync ==
    /\ UNCHANGED notLife
    /\ taskpool.made /\ taskpool.state = "RUN"
    /\ taskpool.in_flight < MaxInFlight
    /\ taskpool' = [taskpool EXCEPT !.in_flight = @ + 1]

\* A worker finishes a work item: of the pool self._pool refers to, or of
\* a pool that a stop() joins and self._pool refers to no more.
WorkFinishes ==
    /\ UNCHANGED notLife
    /\ \/ /\ taskpool.made /\ taskpool.in_flight > 0
          /\ taskpool' = [taskpool EXCEPT
                            !.in_flight = @ - 1,
                            !.waits = BagOfAll(LAMBDA call :
                                                 IF call.current
                                                 THEN [call EXCEPT !.waited = @ + 1]
                                                 ELSE call, @)]
       \/ \E call \in BagToSet(taskpool.waits) :
          /\ ~call.current
          /\ call.in_flight > 0
          /\ taskpool' = [taskpool EXCEPT
                            !.waits = others(@, call)
                                        (+) SetToBag({[call EXCEPT !.in_flight = @ - 1,
                                                                   !.waited = @ + 1]})]

\* stop() up to its wait (lines 51-53): on a pool that runs, close(), which
\* raises or returns, then join() begins to wait for the work in flight.
\* On no pool, or on one that does not run, it returns at once.
Stop ==
    /\ UNCHANGED notLife
    /\ IF ~stop_applies(taskpool.made, taskpool.state)
       THEN taskpool' = [taskpool EXCEPT
                           !.last = Called("stop", <<>>, ThePool, 0, 0, FALSE)]
       ELSE \E outcome \in {"ok", "close_raises"} :
                IF outcome = "close_raises"
                THEN taskpool' = [taskpool EXCEPT
                                    !.last = Called("stop", <<"close">>, ThePool, 0, 0, TRUE)]
                ELSE /\ BagCardinality(taskpool.waits) < MaxWaiting
                     /\ taskpool' = [taskpool EXCEPT
                                       !.state = "CLOSE",
                                       !.waits = @ (+) SetToBag({Joining(ThePool)})]

\* The work in flight in the pool that stop joins.
joined_in_flight(stop) ==
    IF stop.current THEN taskpool.in_flight ELSE stop.in_flight

\* join() raises (an interrupt while the work is waited for): that stop()
\* ends, self._pool is left as it is.
JoinRaises ==
    /\ UNCHANGED notLife
    /\ \E stop \in BagToSet(taskpool.waits) :
            /\ stop.op = "stop"
            /\ taskpool' = [taskpool EXCEPT
                              !.waits = others(@, stop),
                              !.last = [Called("stop", <<"close", "join">>, stop.before,
                                               stop.waited, stop.dropped, TRUE)
                                        EXCEPT !.undisturbed = stop.undisturbed]]

\* join() returns, no work being in flight in the pool joined, and that
\* stop() ends with "self._pool = None" (line 54), whatever self._pool
\* refers to by then: a pool that another call joins or terminates is
\* left to it.
StopReturns ==
    /\ UNCHANGED notLife
    /\ \E stop \in BagToSet(taskpool.waits) :
            /\ stop.op = "stop"
            /\ joined_in_flight(stop) = 0
            /\ taskpool' = [made |-> FALSE, state |-> None, in_flight |-> 0,
                            waits |-> all_detached(others(taskpool.waits, stop),
                                                  taskpool.in_flight),
                            last |-> [Called("stop", <<"close", "join", "release">>,
                                             stop.before, stop.waited, stop.dropped, FALSE)
                                      EXCEPT !.undisturbed = stop.undisturbed,
                                             !.released_other = taskpool.made /\ ~stop.current]]

\* terminate() up to its wait (lines 58-59): on a pool that was made,
\* whatever its state, self._pool.terminate() begins: the pool is in the
\* TERMINATE state, the work in flight is thrown away, and the call waits
\* for the workers to be gone.  On no pool it returns at once.
Terminate ==
    /\ UNCHANGED notLife
    /\ IF terminate_applies(taskpool.made)
       THEN /\ BagCardinality(taskpool.waits) < MaxWaiting
            /\ taskpool' = [taskpool EXCEPT
                              !.state = "TERMINATE",
                              !.in_flight = 0,
                              !.waits = all_terminated(@, taskpool.in_flight)
                                          (+) SetToBag({Terminating(ThePool)})]
       ELSE taskpool' = [taskpool EXCEPT
                           !.last = Called("terminate", <<>>, ThePool, 0, 0, FALSE)]

\* self._pool.terminate() returns and that terminate() ends with
\* "self._pool = None" (line 60), whatever self._pool refers to by then: a
\* pool that start() made meanwhile is released without being terminated.
TerminateReturns ==
    /\ UNCHANGED notLife
    /\ \E call \in BagToSet(taskpool.waits) :
            /\ call.op = "terminate"
            /\ taskpool' = [made |-> FALSE, state |-> None, in_flight |-> 0,
                            waits |-> all_detached(others(taskpool.waits, call),
                                                  taskpool.in_flight),
                            last |-> [Called("terminate", <<"terminate", "release">>,
                                             call.before, call.waited, call.dropped, FALSE)
                                      EXCEPT !.undisturbed = call.undisturbed,
                                             !.released_other = taskpool.made /\ ~call.current]]

NextLife ==
    \/ Start
    \/ PoolApplyAsync
    \/ WorkFinishes
    \/ Stop
    \/ JoinRaises
    \/ StopReturns
    \/ Terminate
    \/ TerminateReturns

(***************************************************************************)
(*       EXCEPTIONS FOR STORAGE (BaseBackend.prepare_exception)            *)
(***************************************************************************)
\* The most classes of the application above Exception in a hierarchy.
MaxDepth == 2

\* A class of the application: whether its instances pickle (a class
\* pickle cannot find by name does not), and whether its constructor takes
\* one positional argument.
UserClass(i, pickles, one_arg) ==
    [name |-> IF i = 1 THEN "E1" ELSE IF i = 2 THEN "E2" ELSE "E3",
     module |-> "tasks", pickles |-> pickles, one_arg |-> one_arg]

\* The classes every exception has below its own: object(args) raises
\* TypeError.
BuiltinClasses ==
    << [name |-> "Exception", module |-> "exceptions", pickles |-> TRUE, one_arg |-> TRUE],
       [name |-> "BaseException", module |-> "exceptions", pickles |-> TRUE, one_arg |-> TRUE],
       [name |-> "object", module |-> "__builtin__", pickles |-> TRUE, one_arg |-> FALSE] >>

\* exc.__class__.mro() of the exceptions given: the classes of the
\* application, most specific first, then the builtin ones.
Mros ==
    {[i \in 1..Len(f) |-> UserClass(i, f[i][1], f[i][2])] \o BuiltinClasses :
        f \in SeqUpTo(BOOLEAN \X BOOLEAN, MaxDepth)}

\* The module base.py imports as pickle (lines 3-6): cPickle where it is
\* there, the pickle of the standard library otherwise.
PickleModules == {"cPickle", "pickle"}

\* exc.args: values that pickle, a lambda (cPickle raises TypeError on it,
\* pickle raises PicklingError) and an open file (both raise TypeError).
ArgTuples == {<<>>, <<"foo">>, <<"foo", "bar">>, <<"a lambda">>, <<"an open file">>}

Excs == [mro : Mros, args : ArgTuples]

\* The text of a tuple, standing for the tuple held as one value.
repr(args) ==
    IF args = <<>> THEN "()"
    ELSE IF args = <<"foo">> THEN "('foo',)"
    ELSE IF args = <<"foo", "bar">> THEN "('foo', 'bar')"
    ELSE IF args = <<"a lambda">> THEN "(<function <lambda>>,)"
    ELSE "(<open file>,)"

\* The exception pickle.dumps raises on an exception of class c that holds
\* args, None when it returns: the class is saved first (PicklingError when
\* it is not found by name), then the args.
dumps_error(module, c, args) ==
    IF ~c.pickles THEN "PicklingError"
    ELSE IF \E i \in DOMAIN args : args[i] = "an open file" THEN "TypeError"
    ELSE IF \E i \in DOMAIN args : args[i] = "a lambda"
    THEN IF module = "cPickle" THEN "TypeError" ELSE "PicklingError"
    ELSE None

\* find_nearest_pickleable_exception trying "supercls(exc.args)" and
\* "pickle.dumps(superexc)" on class c: whether neither raises.
nearest_ok(module, c, args) == c.one_arg /\ dumps_error(module, c, args) = None

\* The args of superexc = supercls(exc.args): one argument, the tuple.
superexc_args(args) == <<repr(args)>>

\* find_nearest_pickleable_exception(exc): superexc of the first class of
\* the mro that is built and pickled, or exc itself.
find_nearest_pickleable_exception(module, exc) ==
    LET ok == {i \in DOMAIN exc.mro : nearest_ok(module, exc.mro[i], exc.args)}
    IN  IF ok = {}
        THEN [cls |-> exc.mro[1], args |-> exc.args, pickles |-> FALSE]
        ELSE LET i == CHOOSE i \in ok : \A j \in ok : i <= j
             IN  [cls |-> exc.mro[i], args |-> superexc_args(exc.args), pickles |-> TRUE]

\* UnpickleableExceptionWrapper(exc_module, exc_cls_name, exc_args)
UnpickleableExceptionWrapper(exc_module, exc_cls_name, exc_args) ==
    [kind |-> "returned", cls |-> "UnpickleableExceptionWrapper",
     exc_module |-> exc_module, exc_cls |-> exc_cls_name,
     args |-> <<exc_module, exc_cls_name, repr(exc_args)>>]

\* prepare_exception(exc): what is returned, or the exception that leaves
\* the call (pickle.PickleError alone is caught).
prepare_exception(module, exc) ==
    LET e == find_nearest_pickleable_exception(module, exc)
        error == dumps_error(module, e.cls, e.args)
    IN  IF e.pickles \/ error = None
        THEN [kind |-> "returned", cls |-> e.cls.name, exc_module |-> None,
              exc_cls |-> None, args |-> e.args]
        ELSE IF error = "PicklingError"
        THEN UnpickleableExceptionWrapper(e.cls.module, e.cls.name, e.args)
        ELSE [kind |-> "raised", cls |-> error, exc_module |-> None,
              exc_cls |-> None, args |-> <<>>]

NoExc == [mro |-> BuiltinClasses, args |-> <<>>]

InitExc ==
    prepared = [called |-> FALSE, pickle |-> "cPickle", exc |-> NoExc,
                result |-> [kind |-> None, cls |-> None, exc_module |-> None,
                            exc_cls |-> None, args |-> <<>>]]

\* backend.prepare_exception(exc), in a process that imported module as
\* pickle.  The call depends on no earlier call, so one call is followed.
PrepareException ==
    /\ UNCHANGED notExc
    /\ ~prepared.called
    /\ \E module \in PickleModules, exc \in Excs :
        prepared' = [called |-> TRUE, pickle |-> module, exc |-> exc,
                     result |-> prepare_exception(module, exc)]

(***************************************************************************)
(*               THE QUEUE DESCRIPTORS (AMQP.get_queues)                   *)
(***************************************************************************)
\* The most queues CELERY_QUEUES names.
MaxQueues == 2

QueueNames == 1..MaxQueues

\* CELERY_DEFAULT_EXCHANGE_TYPE, and another type a queue may name.
default_exchange_type == "direct"
ExchangeTypes == {default_exchange_type, "topic"}

\* The options of one queue in CELERY_QUEUES: each key is missing (<<>>) or
\* has a value.
QueueOptions ==
    [exchange : Opt(Exchanges), exchange_type : Opt(ExchangeTypes),
     binding_key : Opt({"bk"}), routing_key : Opt({"rk"})]

\* CELERY_QUEUES: the options of every queue it names.
QueueConfigs == UNION {[names -> QueueOptions] : names \in (SUBSET QueueNames) \ {{}}}

\* dict.setdefault on a key that is missing (<<>>) or has a value.
setdefault(value, default) == IF value = <<>> THEN <<default>> ELSE value

\* get_queues, _defaults(opts): the four setdefault calls in order, the last
\* one reading the binding_key the third has left.
defaults(opts) ==
    LET binding_key == setdefault(opts.binding_key, default_exchange)
    IN  [exchange |-> setdefault(opts.exchange, default_exchange),
         exchange_type |-> setdefault(opts.exchange_type, default_exchange_type),
         binding_key |-> binding_key,
         routing_key |-> setdefault(opts.routing_key, binding_key[1])]

\* get_queues(): the dict of every queue and its options with defaults.
get_queues(queues) == [queue \in DOMAIN queues |-> defaults(queues[queue])]

InitQueues == resolved = [called |-> FALSE, config |-> <<>>, queues |-> <<>>]

\* app.amqp.get_queues() with CELERY_QUEUES = config.  The dict returned is
\* decided by the configuration alone, so one call is followed.
GetQueues ==
    /\ UNCHANGED notQueues
    /\ ~resolved.called
    /\ \E config \in QueueConfigs :
        resolved' = [called |-> TRUE, config |-> config, queues |-> get_queues(config)]

(***************************************************************************)
(*           THE SUBMISSION (TaskWrapper.execute_using_pool)               *)
(***************************************************************************)
\* The values TaskDaemon.loglevel and TaskDaemon.logfile are configured with.
LogLevels == {"logging.ERROR", "logging.DEBUG"}
LogFiles == {"celeryd.log", "/var/log/celeryd.log"}

\* The kwargs of a message: the dicts over three keys and two values.
KwargDicts ==
    UNION {[keys -> {"1", "task.log"}] : keys \in SUBSET {"x", "logfile", "loglevel"}}

\* The args of a message.
ArgLists == {<<>>, <<2, 2>>}

\* The bodies of the messages of registered tasks, decoded.
MessageData == [task : tasks, id : {"id-1"}, args : ArgLists, kwargs : KwargDicts]

\* tasks[task_name]: the function registered under a name.
registered(task_name) == [function |-> task_name]

\* TaskWrapper(task_name, task_id, task_func, args, kwargs)
TaskWrapper(task_name, task_id, task_func, args, kwargs) ==
    [task_name |-> task_name, task_id |-> task_id, task_func |-> task_func,
     args |-> args, kwargs |-> kwargs]

\* d.update(other): the keys of other replace those of d.
update(d, other) ==
    [k \in DOMAIN d \cup DOMAIN other |-> IF k \in DOMAIN other THEN other[k] ELSE d[k]]

\* TaskWrapper.extend_kwargs_with_logging(self, loglevel, logfile), kwargs
\* being self.kwargs.
extend_kwargs_with_logging(kwargs, loglevel, logfile) ==
    update([logfile |-> logfile, loglevel |-> loglevel], kwargs)

\* TaskWrapper.execute_using_pool(self, pool, loglevel, logfile): the three
\* arguments pool.apply_async is called with.  The call of line 57 passes
\* (logfile, loglevel) to extend_kwargs_with_logging(loglevel, logfile).
execute_using_pool(task, loglevel, logfile) ==
    [target |-> task.task_func, args |-> task.args,
     kwargs |-> extend_kwargs_with_logging(task.kwargs, logfile, loglevel)]

\* execute_next_task, lines 95-99, on a daemon configured with loglevel and
\* logfile that fetched a message of body data: from_message makes the
\* TaskWrapper and execute_using_pool submits it.
execute_next_task(data, loglevel, logfile) ==
    LET task == TaskWrapper(data.task, data.id, registered(data.task), data.args, data.kwargs)
    IN  [called |-> TRUE, data |-> data, loglevel |-> loglevel, logfile |-> logfile,
         apply_async |-> execute_using_pool(task, loglevel, logfile)]

InitSubmit ==
    submitted = [called |-> FALSE,
                 data |-> [task |-> "add", id |-> "id-1", args |-> <<>>, kwargs |-> <<>>],
                 loglevel |-> "logging.ERROR", logfile |-> "celeryd.log",
                 apply_async |-> [target |-> registered("add"), args |-> <<>>, kwargs |-> <<>>]]

\* The daemon fetches a message of a registered task and submits the task.
\* What the pool is given is decided by the message and the daemon's
\* configuration alone, so one submission is followed.
SubmitTask ==
    /\ UNCHANGED notSubmit
    /\ ~submitted.called
    /\ \E data \in MessageData, loglevel \in LogLevels, logfile \in LogFiles :
        submitted' = execute_next_task(data, loglevel, logfile)

(***************************************************************************)
(*         THE SENDS OF ONE PUBLISHER (TaskPublisher.delay_task)           *)
(***************************************************************************)
\* The most messages the publisher that is followed sends.
MaxSends == 3

\* delay_task, lines 67-68, "if exchange: self.exchange = exchange":
\* self.exchange after a call given the exchange argument arg.
exchange_of_call(arg, exchange) == IF arg # None THEN arg ELSE exchange

\* One message sent: the exchange argument of the call, the exchange
\* self.send published to, and whether that exchange was in
\* _exchanges_declared when it did.
Sent(arg, exchange, declared) == [arg |-> arg, exchange |-> exchange, declared |-> declared]

\* The calls of AMQP.TaskPublisher that are under way: the one that
\* returns the publisher that is followed, and one of another thread.
Callers == {"followed", "other"}

\* No call of a caller is under way.
NotCalling == [pc |-> "idle", exchange |-> None]

\* made, configured, exchange: the publisher that is followed, the exchange
\* it was made with and self.exchange.  calls[t]: where the call of t
\* waits for the broker, and the exchange of its publisher.
InitSend ==
    sender = [made |-> FALSE, configured |-> None, exchange |-> None,
              exchanges_declared |-> {}, queues_declared |-> FALSE, sent |-> <<>>,
              calls |-> [t \in Callers |-> NotCalling]]

\* publisher.declare() in AMQP.TaskPublisher (lines 161, 27-28) on a
\* publisher of exchange e: the call waits for the broker's declare, or
\* has returned.
declaring(e, declared) ==
    IF declare_needed(e, declared) THEN [pc |-> "declare", exchange |-> e]
    ELSE NotCalling

\* The call of t for a publisher of exchange e goes on to c: when it has
\* returned and t is the caller that is followed, the publisher is the
\* one followed.
obtained(s, t, e, c) ==
    IF t = "followed" /\ c = NotCalling
    THEN [s EXCEPT !.calls[t] = c, !.made = TRUE, !.configured = e, !.exchange = e]
    ELSE [s EXCEPT !.calls[t] = c]

\* app.amqp.TaskPublisher(exchange=e) up to its first wait (lines
\* 147-158, or 147-161 and 27-28): if the flag is unset the consumer set
\* is being opened; otherwise the publisher is declared.
ObtainPublisher ==
    /\ UNCHANGED notSend
    /\ \E t \in Callers, e \in Exchanges :
        LET c == IF ~sender.queues_declared THEN [pc |-> "open", exchange |-> e]
                 ELSE declaring(e, sender.exchanges_declared)
        IN  /\ sender.calls[t] = NotCalling
            /\ t = "followed" => ~sender.made
            /\ sender' = obtained(sender, t, e, c)

\* get_consumer_set (line 158) ends: consumers.close() is called, or it
\* raises and ends the call with no publisher returned.
QueuesOpened ==
    /\ UNCHANGED notSend
    /\ \E t \in Callers, open \in Outcomes :
        /\ sender.calls[t].pc = "open"
        /\ sender' = [sender EXCEPT
                        !.calls[t] = IF open = "ok" THEN [@ EXCEPT !.pc = "close"]
                                     ELSE NotCalling]

\* consumers.close() (line 159) ends: the flag is set (line 160) and the
\* publisher declared (line 161), or it raises and ends the call.
QueuesClosed ==
    /\ UNCHANGED notSend
    /\ \E t \in Callers, close \in Outcomes :
        LET e == sender.calls[t].exchange
            flagged == [sender EXCEPT
                          !.queues_declared = IF after_consumer_set("ok", close)
                                              THEN TRUE ELSE @]
        IN  /\ sender.calls[t].pc = "close"
            /\ sender' = IF close = "ok"
                         THEN obtained(flagged, t, e, declaring(e, sender.exchanges_declared))
                         ELSE [flagged EXCEPT !.calls[t] = NotCalling]

\* The broker's declare (line 28) ends: the exchange is added to the set
\* (line 29) and the publisher returned (line 163), or it raises and ends
\* the call.
ExchangeDeclared ==
    /\ UNCHANGED notSend
    /\ \E t \in Callers, decl \in Outcomes :
        LET e == sender.calls[t].exchange
            added == [sender EXCEPT !.exchanges_declared = after_declare(@, e, decl)]
        IN  /\ sender.calls[t].pc = "declare"
            /\ sender' = IF decl = "ok"
                         THEN obtained(added, t, e, NotCalling)
                         ELSE [added EXCEPT !.calls[t] = NotCalling]

\* publisher.delay_task(name, exchange=arg), lines 66-71: the exchange
\* argument replaces self.exchange and self.send publishes to self.exchange;
\* declare() is not called.
SendTask ==
    /\ UNCHANGED notSend
    /\ sender.made
    /\ Len(sender.sent) < MaxSends
    /\ \E arg \in Exchanges \cup {None} :
        LET exchange == exchange_of_call(arg, sender.exchange)
        IN  sender' =
              [sender EXCEPT
                 !.exchange = exchange,
                 !.sent = Append(@, Sent(arg, exchange,
                                         exchange \in sender.exchanges_declared))]

NextSend ==
    \/ ObtainPublisher
    \/ QueuesOpened
    \/ QueuesClosed
    \/ ExchangeDeclared
    \/ SendTask

(***************************************************************************)
(*                          THE SPECIFICATIONS                             *)
(***************************************************************************)
\* Every component as it is when the process starts.
Init ==
    /\ InitDaemon /\ InitPool /\ InitAmqp /\ InitPublish /\ InitConsumer
    /\ InitCompletion /\ InitWait /\ InitLife /\ InitExc /\ InitQueues /\ InitSubmit
    /\ InitSend

\* The daemon left alone, with EMPTY_MSG_EMIT_EVERY unset.
InitIdleDaemon == Init /\ emit_every = 0

\* The daemon with EMPTY_MSG_EMIT_EVERY unset, and the workers of its pool.
InitDaemonPool == Init /\ emit_every = 0 /\ finished = {}

SpecDaemon     == Init /\ [][NextDaemon]_vars
SpecDaemonPool == InitDaemonPool /\ [][NextDaemonPool]_vars
SpecPool       == InitIdleDaemon /\ [][NextPool]_vars
SpecLife       == InitIdleDaemon /\ [][NextLife]_vars
SpecAmqp       == InitIdleDaemon /\ [][NextAmqp]_vars
SpecPublish    == InitIdleDaemon /\ [][DelayTaskMessage]_vars
SpecConsumer   == InitIdleDaemon /\ [][ReceiveCallback]_vars
SpecQueues     == InitIdleDaemon /\ [][GetQueues]_vars
SpecExc        == InitIdleDaemon /\ [][PrepareException]_vars
SpecSubmit     == InitIdleDaemon /\ [][SubmitTask]_vars
SpecSend       == InitIdleDaemon /\ [][NextSend]_vars
SpecWait       == InitIdleDaemon /\ [][NextWait]_vars

\* wait_for runs on (its thread takes its steps) and the clock advances.
FairSpecWait ==
    /\ SpecWait
    /\ WF_vars(GetStatus) /\ WF_vars(GetResult) /\ WF_vars(Tick)
    /\ WF_vars(TimePasses)

(***************************************************************************)
(*                    PROPERTIES OF THE WORKER DAEMON                      *)
(***************************************************************************)
\* The daemon's calls of message.ack() and message.reject(), returned or not.
AckCalls(m) == At("ack", m) \cup At("ack_raised", m)
RejectCalls(m) == At("reject", m) \cup At("reject_raised", m)
Submissions(m) == At("submit", m) \cup At("submit_raised", m)

LastLog == IF log = <<>> THEN Event(None, 0) ELSE log[Len(log)]

\* C1: message.ack() is called on a message only after the pool submission
\* of that message's task has returned without raising: every ack call in
\* the log comes after a returned submission of the same message, no ack call
\* is made on a message whose submission raised, and the loop stands at the
\* ack only with the returned submission of the current message behind it.
C1_AckOnlyAfterSubmission ==
    /\ \A m \in Msgs : \A i \in AckCalls(m) :
          /\ \E j \in At("submit", m) : j < i
          /\ At("submit_raised", m) = {}
    /\ pc = "ack" => cur \in Msgs /\ LastLog = Event("submit", cur)

\* A message was acknowledged after its submission returned, while the
\* submission of another message had raised.
C1_Witness ==
    \E m, n \in Msgs :
        /\ At("ack", m) # {}
        /\ At("submit", m) # {}
        /\ At("submit_raised", n) # {}

\* C2: if the pool submission raises for a fetched message of a registered
\* task, the daemon never calls ack or reject on that message, and the step
\* that takes the failure leaves the loop at the head of its next iteration,
\* not terminated.
C2_SubmissionFailureLeavesMessage ==
    /\ [](\A m \in Msgs : At("submit_raised", m) # {} =>
            /\ body[m].form = "ok" /\ body[m].task \in tasks
            /\ AckCalls(m) = {} /\ RejectCalls(m) = {}
            /\ At("add", m) = {})
    /\ [][(pc = "submit" /\ log' = Append(log, Event("submit_raised", cur)))
            => pc' = "periodic"]_vars

\* A submission has just raised: the loop is back at its head with the
\* message neither acknowledged nor rejected.
C2_Witness ==
    /\ pc = "periodic"
    /\ cur \in Msgs
    /\ LastLog = Event("submit_raised", cur)

\* C3: when a fetched message names a task that is not in the registry, the
\* daemon calls message.reject() on it once, never acknowledges it, never
\* submits anything to the pool for it, and the step leaves the loop at the
\* head of its next iteration, not terminated.
C3_UnknownTaskRejected ==
    /\ [](\A m \in 1..fetched :
            (body[m].form = "ok" /\ body[m].task \notin tasks) =>
                /\ Cardinality(RejectCalls(m)) = 1
                /\ AckCalls(m) = {}
                /\ Submissions(m) = {}
                /\ At("add", m) = {})
    /\ [][(pc = "fetch" /\ fetched' = fetched + 1
             /\ body'[fetched'].form = "ok" /\ body'[fetched'].task \notin tasks)
            => pc' = "periodic"]_vars

\* A message of an unregistered task was rejected and the loop went on to
\* fetch and submit a later message.
C3_Witness ==
    \E m, n \in Msgs :
        /\ m < n
        /\ body[m] = [form |-> "ok", task |-> "unregistered_task"]
        /\ At("reject", m) # {}
        /\ At("submit", n) # {}

(***************************************************************************)
(*                     PROPERTIES OF THE PROCESS POOL                      *)
(***************************************************************************)
Done == item.state = "done"

\* The collected result of the work item is an exception-info of SystemExit or of
\* KeyboardInterrupt, handed to on_ready.
FatalResult ==
    /\ item.path = "on_ready"
    /\ item.ret.kind = "einfo"
    /\ item.ret.val \in {"SystemExit", "KeyboardInterrupt"}

\* The result of the work item is a failure of the worker side that is not fatal:
\* an exception-info handed to on_ready, or an error handed to
\* on_worker_error.
FailureResult ==
    /\ item.ret.kind = "einfo"
    /\ ~FatalResult

\* The calls that invoke every callback of funs once, in order, with arg.
EveryCallback(list, funs, arg) == [k \in 1..Len(funs) |-> Call(list, k, arg)]

\* C4 as stated: whatever the outcome of a completed work item, exactly one
\* of its two callback lists fires, exactly once.
C4_ExactlyOneListWhateverTheOutcome ==
    Done => Len(item.effect.fired) = 1

\* C4, amended: a completed work item whose result is not an exception-info
\* of SystemExit or KeyboardInterrupt has exactly one of its two callback
\* lists fired, exactly once (the success list for a returned value, the
\* failure list otherwise), no callback of the other list called and no
\* callback called twice; for SystemExit and KeyboardInterrupt neither list
\* fires.
C4_ExactlyOneListUnlessFatal ==
    Done =>
        LET e == item.effect
        IN  IF FatalResult
            THEN e.fired = <<>> /\ e.calls = <<>>
            ELSE /\ e.fired = <<IF item.ret.kind = "value" THEN "callbacks" ELSE "errbacks">>
                 /\ \A k \in DOMAIN e.calls : e.calls[k].list = e.fired[1]
                 /\ \A k, l \in DOMAIN e.calls : e.calls[k].idx = e.calls[l].idx => k = l

\* A work item with callbacks in both lists failed with an ordinary
\* exception: its failure list fired, alone.
C4_Witness ==
    /\ Done
    /\ item.ret = ExceptionInfo("ValueError")
    /\ Len(item.callbacks) = 2 /\ Len(item.errbacks) = 2
    /\ item.effect.fired = <<"errbacks">>
    /\ Len(item.effect.calls) = 2

\* C5: when the collected result is an exception-info of SystemExit or
\* KeyboardInterrupt, on_ready raises that exception and calls no failure
\* callback and no success callback of the work item.
C5_FatalIsReraised ==
    (Done /\ FatalResult) =>
        /\ item.effect.raised = item.ret.val
        /\ item.effect.calls = <<>>

\* A work item with callbacks in both lists ended in KeyboardInterrupt, which
\* on_ready raised.
C5_Witness ==
    /\ Done
    /\ item.path = "on_ready"
    /\ item.ret = ExceptionInfo("KeyboardInterrupt")
    /\ Len(item.callbacks) > 0 /\ Len(item.errbacks) > 0
    /\ item.effect.raised = "KeyboardInterrupt"

\* C6: for every failure of the worker side other than SystemExit and
\* KeyboardInterrupt, on the on_ready path and on the on_worker_error path,
\* every failure callback is called exactly once with the exception-info,
\* also when an earlier one raises, and no exception of a callback leaves the
\* result-collection path.
C6_EveryErrbackCalledNothingPropagates ==
    (Done /\ FailureResult) =>
        /\ item.effect.calls = EveryCallback("errbacks", item.errbacks, item.ret)
        /\ item.effect.raised = None

\* C7: for a work item whose target returned the value v, every success
\* callback is called exactly once with v, in registration order, also when
\* an earlier one raises; no failure callback is called and nothing leaves
\* on_ready.
C7_EveryCallbackCalledWithValue ==
    (Done /\ item.ret.kind = "value") =>
        /\ item.path = "on_ready"
        /\ item.effect.calls = EveryCallback("callbacks", item.callbacks, item.ret)
        /\ item.effect.raised = None

\* A target returned 5; the first success callback raised and the second was
\* called all the same, and the work item had failure callbacks.
C7_Witness ==
    /\ Done
    /\ item.ret = Value(5)
    /\ item.callbacks = <<"raises", "returns">>
    /\ Len(item.errbacks) > 0
    /\ Len(item.effect.calls) = 2
    /\ item.effect.logged = 1

(***************************************************************************)
(*               PROPERTIES OF THE PUBLISHER'S DECLARATIONS                *)
(***************************************************************************)
\* C8: across any sequence of publisher creations and declare() calls of a
\* process, one call after the other (none begins while another waits for
\* the broker), the broker has declared each exchange exactly once when it
\* is in the declared-exchange set and never otherwise, and a step taken
\* while an exchange is in the set makes no broker declare call for it,
\* returned or raised; a declare() that finds its publisher's exchange in
\* the set asks the broker nothing, and an exchange is in the set exactly
\* when a broker declare of it has returned.
C8_ExchangeDeclaredOnce ==
    /\ [](~overlapped =>
            \A e \in Exchanges :
                broker.declare_ok[e] = IF e \in exchanges_declared THEN 1 ELSE 0)
    /\ [][~overlapped' =>
            \A e \in exchanges_declared :
                /\ broker'.declare_ok[e] = broker.declare_ok[e]
                /\ broker'.declare_raised[e] = broker.declare_raised[e]]_vars
    /\ [](\A e \in Exchanges :
            broker.declare_ok[e] >= 1 <=> e \in exchanges_declared)
    /\ [][\A t \in Threads :
            (threads'[t].pc = "declare" /\ threads[t].pc # "declare")
                => threads'[t].publisher.exchange \notin exchanges_declared]_vars

\* Two publishers of the same exchange came from AMQP.TaskPublisher, one
\* call after the other, and a publisher of another exchange was declared
\* too: one broker declare each.
C8_Witness ==
    /\ ~overlapped
    /\ \E e \in Exchanges : publishers[[exchange |-> e, via |-> "amqp"]] = 2
    /\ exchanges_declared = Exchanges
    /\ \A e \in Exchanges : broker.declare_ok[e] = 1

\* C9: the declared-exchange set is empty at the start, never loses an
\* element, holds an exchange only if a broker declare of it has returned,
\* and is unchanged by a step in which the broker declare raises.
C9_DeclaredSetGrowsOnSuccess ==
    /\ exchanges_declared = {}
    /\ [](\A e \in exchanges_declared : broker.declare_ok[e] >= 1)
    /\ [][/\ exchanges_declared \subseteq exchanges_declared'
          /\ (\E e \in Exchanges : broker'.declare_raised[e] # broker.declare_raised[e])
                => exchanges_declared' = exchanges_declared
          /\ \A e \in exchanges_declared' \ exchanges_declared :
                broker'.declare_ok[e] = broker.declare_ok[e] + 1]_vars

\* The broker's declare of one exchange raised and left it out of the set,
\* while another exchange is in it.
C9_Witness ==
    \E e, f \in Exchanges :
        /\ broker.declare_raised[e] > 0
        /\ e \notin exchanges_declared
        /\ f \in exchanges_declared

\* C10 as stated: the consumer set over all queues is opened and closed
\* before the flag is set, the full queue declaration happens exactly once
\* per process, and it precedes every publish made through a publisher
\* obtained from AMQP.TaskPublisher.
C10_QueuesDeclaredExactlyOnce ==
    /\ queues_declared => broker.cset_open_ok >= 1 /\ broker.cset_close_ok >= 1
    /\ broker.cset_open_ok <= 1
    /\ \A k \in Publishers : (k.via = "amqp" /\ publishers[k] > 0) => queues_declared
    /\ broker.last_sent.via = "amqp"
            => broker.last_sent.queues_declared

\* C10, amended: the flag is set exactly when a consumer set over all
\* queues that AMQP.TaskPublisher opened has been closed without either
\* raising, which happens at most once as long as no call began while
\* another one waited for the broker; a call that finds the flag set opens
\* and closes nothing; every publisher AMQP.TaskPublisher returned, and
\* every publish made through one, comes after that; a call in which
\* opening or closing raises does not set the flag (so a later call opens
\* the consumer set, and declares the queues, again).  Calls of
\* get_consumer_set from elsewhere declare the queues and leave the flag.
C10_QueuesDeclaredOnceCompleted ==
    /\ [](/\ queues_declared <=> broker.cset_close_ok >= 1
          /\ ~overlapped => broker.cset_close_ok <= 1
          /\ broker.cset_close_ok <= Cardinality(Threads)
          /\ broker.cset_close_ok <= broker.cset_open_ok
          /\ \A k \in Publishers : (k.via = "amqp" /\ publishers[k] > 0) => queues_declared
          /\ broker.last_sent.via = "amqp"
                => broker.last_sent.queues_declared)
    /\ [][/\ queues_declared => queues_declared'
          /\ \A t \in Threads :
                (threads'[t].pc = "open" /\ threads[t].pc # "open") => ~queues_declared
          /\ (\A t \in Threads : threads[t].pc \notin {"open", "close"}) =>
                /\ broker'.cset_open_ok = broker.cset_open_ok
                /\ broker'.cset_close_ok = broker.cset_close_ok
                /\ broker'.cset_close_raised = broker.cset_close_raised
          /\ (\/ broker'.cset_open_raised # broker.cset_open_raised
              \/ broker'.cset_close_raised # broker.cset_close_raised
              \/ broker'.cset_direct # broker.cset_direct)
                => queues_declared' = queues_declared]_vars

\* Closing the consumer set raised once; a later call opened and closed it,
\* set the flag and returned a publisher, through which a task was sent; no
\* two calls were in progress at once and no consumer set was opened from
\* elsewhere.
C10_Witness ==
    /\ ~overlapped
    /\ ~broker.cset_direct
    /\ broker.cset_close_raised = 1
    /\ broker.cset_open_ok = 2
    /\ queues_declared
    /\ broker.last_sent.via = "amqp"

(***************************************************************************)
(*                    PROPERTIES OF THE TASK MESSAGE                       *)
(***************************************************************************)
\* C11: every call of delay_task whose args is a mapping (empty or not) or
\* whose kwargs is not a dictionary raises the validation error, sends
\* nothing to the broker and sends no task_sent signal.
C11_InvalidArgsNeverSent ==
    (/\ published.called
     /\ \/ published.call.args \in {"dict", "empty_dict"}
        \/ published.call.kwargs \in {"list", "empty_list"})
        => /\ published.raised = "ValueError"
           /\ ~published.sent
           /\ ~published.task_sent

\* C12: a call given a countdown c >= 0 and no eta, that sends its message,
\* sends eta = now + c for one reading now of the clock, and with an int
\* expires e it sends expires = that now + e.
C12_EtaIsNowPlusCountdown ==
    (/\ published.sent
     /\ published.call.countdown # <<>>
     /\ published.call.eta = <<>>)
        => \E now \in LaterReadings :
            /\ published.message.eta = <<[iso |-> now + published.call.countdown[1]]>>
            /\ published.call.expires.kind = "int" =>
                published.message.expires = <<[iso |-> now + published.call.expires.val]>>

(***************************************************************************)
(*                    PROPERTIES OF THE CONSUMER SET                       *)
(***************************************************************************)
\* C13: for a raw message whose decode was reached, one of three: decode
\* returned and receive was called once with (decoded body, message);
\* decode raised with a handler registered, and on_decode_error was called
\* once with (message, exception), the decode exception did not leave the
\* callback and receive was not called; decode raised with no handler, and
\* the decode exception left the callback and receive was not called.
C13_DecodeOutcomes ==
    LET a == received.arrival
        wellformed == a.body \in {"[2, 2]", "{\"x\": 1}"}
    IN  (received.called /\ received.decode # "not reached") =>
            /\ received.decode = IF wellformed THEN "returned" ELSE "raised"
            /\ wellformed =>
                /\ Len(received.receive_calls) = 1
                /\ received.receive_calls[1].message = a.tag
                /\ received.receive_calls[1].decoded = decode(a.body)
                /\ received.receive_calls[1].decoded # None
                /\ received.handler_calls = <<>>
                /\ received.raised # "DecodeError"
            /\ (~wellformed /\ a.on_decode_error # "none") =>
                /\ received.handler_calls = <<[message |-> a.tag, exc |-> "DecodeError"]>>
                /\ received.receive_calls = <<>>
                /\ received.raised # "DecodeError"
            /\ (~wellformed /\ a.on_decode_error = "none") =>
                /\ received.raised = "DecodeError"
                /\ received.receive_calls = <<>>
                /\ received.handler_calls = <<>>

\* A body that does not decode arrived at a consumer set with a handler: the
\* handler was called and the callback returned.
C13_Witness ==
    /\ received.called
    /\ received.decode = "raised"
    /\ received.arrival.on_decode_error = "returns"
    /\ Len(received.handler_calls) = 1
    /\ received.raised = None

\* C21: with auto-ack, a message that arrives not yet acknowledged is
\* acknowledged once, and that call is the first the callback makes: it
\* comes before the decode attempt and before on_decode_error or receive
\* runs, also when decode then raises; a message that arrives acknowledged
\* is not acknowledged again; without auto-ack the callback never
\* acknowledges.
C21_AutoAckOnceBeforeDecode ==
    received.called =>
        LET a == received.arrival
            acks == {i \in DOMAIN received.order : received.order[i] = "ack"}
        IN  /\ (a.auto_ack /\ ~a.acknowledged) =>
                  /\ acks = {1}
                  /\ received.ack_called
                  /\ received.decode # "not reached" => received.order[2] = "decode"
            /\ (a.auto_ack /\ a.acknowledged) => acks = {} /\ ~received.ack_called
            /\ ~a.auto_ack => acks = {} /\ ~received.ack_called

\* A message that does not decode arrived, not yet acknowledged, at a
\* consumer set with auto-ack and a handler: it was acknowledged, then
\* decode raised, then the handler ran.
C21_Witness ==
    /\ received.called
    /\ received.arrival.auto_ack /\ ~received.arrival.acknowledged
    /\ received.arrival.on_decode_error = "returns"
    /\ received.order = <<"ack", "decode", "on_decode_error">>

(***************************************************************************)
(*                 FURTHER PROPERTIES OF THE WORKER DAEMON                 *)
(***************************************************************************)
\* C14: no exception raised while fetching, decoding, submitting or
\* acknowledging a message terminates the run loop: a step taken at the
\* fetch, at the submission or at the ack goes on to the next stage or
\* back to the head of the loop, and the loop never reaches a terminated
\* state on its own.
C14_FailuresContinueTheLoop ==
    /\ [](pc # "terminated")
    /\ [][/\ pc = "fetch" => pc' \in {"submit", "periodic"}
          /\ pc = "submit" => pc' \in {"ack", "periodic"}
          /\ pc = "ack" => pc' \in {"add", "periodic"}
          /\ (pc \in {"fetch", "submit", "ack"} /\ log' # log
                /\ log'[Len(log')].ev \in
                      {"reject", "reject_raised", "submit_raised", "ack_raised"})
                => pc' = "periodic"]_vars

\* C15: every empty poll sleeps queue_wakeup_after before the next
\* iteration; between two notices more than emit_every has elapsed (the
\* later one was decided on a reading of the clock more than emit_every
\* after the reading stored with the earlier one); the first empty poll logs
\* the notice when an interval is set; with no interval none is logged.
C15_EmptyPollsSleepAndRateLimit ==
    /\ \A i \in DOMAIN idle :
          /\ idle[i].slept = queue_wakeup_after
          /\ idle[i].woke >= idle[i].stamp + idle[i].slept
          /\ idle[i].stamp >= idle[i].now
          /\ i < Len(idle) => idle[i + 1].now >= idle[i].woke
    /\ \A i, j \in DOMAIN idle :
          (i < j /\ idle[i].emitted /\ idle[j].emitted)
              => idle[j].now > idle[i].stamp + emit_every
    /\ (idle # <<>> /\ emit_every # 0) => idle[1].emitted
    /\ emit_every = 0 => \A i \in DOMAIN idle : ~idle[i].emitted

\* Four empty polls: the first logged the notice, the next did not, a later
\* one logged it again.
C15_Witness ==
    \E i, j, k \in DOMAIN idle :
        /\ i < j /\ j < k
        /\ idle[i].emitted
        /\ ~idle[j].emitted
        /\ idle[k].emitted

\* C20: messages are acknowledged in the order in which their tasks were
\* submitted: every call of message.ack() comes right after the returned
\* submission of the same message, with no submission of another message
\* between the two, and of two acknowledged messages the one submitted
\* first is acknowledged first, whatever tasks the workers have finished.
C20_AcksInSubmissionOrder ==
    /\ \A i \in DOMAIN log :
          log[i].ev \in {"ack", "ack_raised"}
              => i > 1 /\ log[i - 1] = Event("submit", log[i].msg)
    /\ \A i, j \in DOMAIN log :
          (i < j /\ log[i].ev = "submit" /\ log[j].ev = "submit")
              => \A k, l \in DOMAIN log :
                    (log[k] = Event("ack", log[i].msg) /\ log[l] = Event("ack", log[j].msg))
                        => k < l

\* Two messages were submitted and acknowledged, and the task of the later
\* one finished while the task of the earlier one is still running.
C20_Witness ==
    \E m, n \in Msgs :
        /\ m < n
        /\ At("ack", m) # {} /\ At("ack", n) # {}
        /\ n \in finished /\ m \notin finished

\* C24: every message the daemon fetched gets at most one disposition:
\* message.ack() is called on it at most once, message.reject() at most
\* once, never both; reject is called only on a message whose task name is
\* not registered and ack only on a message whose task name is registered;
\* nothing is called on a message that was not fetched.
C24_AtMostOneDisposition ==
    \A m \in Msgs :
        /\ Cardinality(AckCalls(m)) <= 1
        /\ Cardinality(RejectCalls(m)) <= 1
        /\ AckCalls(m) = {} \/ RejectCalls(m) = {}
        /\ RejectCalls(m) # {} => body[m].form = "ok" /\ body[m].task \notin tasks
        /\ AckCalls(m) # {} => body[m].form = "ok" /\ body[m].task \in tasks
        /\ m > fetched => AckCalls(m) = {} /\ RejectCalls(m) = {}

\* Three messages were fetched: one was rejected, one was acknowledged, and
\* the submission of the third raised, which left it with no disposition.
C24_Witness ==
    \E m, n, k \in Msgs :
        /\ At("reject", m) # {} /\ AckCalls(m) = {}
        /\ At("ack", n) # {} /\ RejectCalls(n) = {}
        /\ At("submit_raised", k) # {} /\ AckCalls(k) = {} /\ RejectCalls(k) = {}

\* C25: results.add is called for a message exactly when message.ack()
\* returned for it in the same iteration: every call of add in the log
\* comes right after the returned ack of the same message, no message has
\* two calls, the step after a returned ack is the call of add for that
\* message, and an iteration that ends in an empty queue, an unknown task, a
\* body that does not decode, a failed submission or a failed ack adds
\* nothing.
C25_ResultAddedIffAcknowledged ==
    /\ [](\A i \in DOMAIN log :
            log[i].ev \in {"add", "add_raised"}
                => i > 1 /\ log[i - 1] = Event("ack", log[i].msg))
    /\ [](\A m \in Msgs :
            /\ Cardinality(At("add", m) \cup At("add_raised", m)) <= 1
            /\ At("ack", m) # {} =>
                  \/ At("add", m) \cup At("add_raised", m) # {}
                  \/ pc = "add" /\ cur = m /\ LastLog = Event("ack", m)
            /\ (\/ body[m].form # "ok"
                \/ body[m].task \notin tasks
                \/ At("submit_raised", m) # {}
                \/ At("ack_raised", m) # {})
                  => At("add", m) \cup At("add_raised", m) = {})
    /\ [][/\ (log' # log /\ LastLog = Event("ack", cur))
                => \/ log' = Append(log, Event("add", cur))
                   \/ log' = Append(log, Event("add_raised", cur))
          /\ idle' # idle => log' = log
          /\ (log' # log /\ log'[Len(log')].ev \in {"add", "add_raised"})
                => pc = "add" /\ pc' \in {"periodic", "terminated"}]_vars

\* The result of an acknowledged message was added, after an empty poll and
\* a message whose ack raised added nothing, and a later message has been
\* acknowledged.
C25_Witness ==
    \E m, n, k \in Msgs :
        /\ m < n /\ n < k
        /\ At("ack_raised", m) # {} /\ At("add", m) = {}
        /\ At("ack", n) # {} /\ At("add", n) # {}
        /\ At("ack", k) # {}
        /\ idle # <<>>

(***************************************************************************)
(*                   PROPERTIES OF THE RESULT BACKEND                      *)
(***************************************************************************)
\* C16: wait_for polls again after a status that is neither DONE nor
\* FAILURE (PENDING, RETRY) unless the timeout has elapsed; it returns the
\* stored result on the first DONE it reads and raises the stored exception
\* on the first FAILURE; TimeoutError is raised only with a finite timeout
\* that has elapsed; with a finite timeout the call always ends (in
\* TimeoutError when the status never becomes DONE or FAILURE), and with
\* timeout None it ends only after reading DONE or FAILURE.
C16_WaitForPollsUntilFinalOrTimeout ==
    /\ [](wait.outcome.kind = "returned" =>
            /\ wait.status = "DONE"
            /\ wait.outcome.stored_as = "DONE")
    /\ [](wait.outcome.kind = "raised" =>
            \/ /\ wait.status = "FAILURE"
               /\ wait.outcome.stored_as = "FAILURE"
            \/ /\ wait.outcome.stored_as = None
               /\ wait.status \in {"PENDING", "RETRY"}
               /\ wait.timeout # <<>>
               /\ wait.now > wait.time_start + wait.timeout[1])
    /\ [][(wait.pc = "get_status" /\ wait'.pc # "get_status") =>
            /\ wait.meta.status \in {"PENDING", "RETRY"} => wait'.pc = "tick"
            /\ wait.meta.status = "DONE" => wait'.pc = "return"
            /\ wait.meta.status = "FAILURE" => wait'.pc = "raise"]_vars
    /\ [][(wait.pc = "tick" /\ wait'.pc # "tick") =>
            \/ wait'.pc = "get_status"
            \/ wait.timeout # <<>> /\ wait'.outcome.stored_as = None]_vars
    /\ (wait.pc = "get_status" /\ wait.timeout # <<>>) ~> (wait.pc = "done")

\* A call with a finite timeout read RETRY and ended in TimeoutError.
C16_Witness ==
    /\ wait.pc = "done"
    /\ wait.status = "RETRY"
    /\ wait.timeout # <<>>
    /\ wait.outcome = [kind |-> "raised", val |-> <<"TimeoutError">>,
                       stored_as |-> None]

(***************************************************************************)
(*                    PROPERTIES OF THE POOL'S LIFE                        *)
(***************************************************************************)
\* C17, as claimed: after stop() returns on a started pool (_pool is not
\* None), the pool was closed, then joined, then released, whatever state
\* the underlying pool was in.
C17_StopReleasesWhateverState ==
    (/\ taskpool.last.op = "stop"
     /\ ~taskpool.last.raised
     /\ taskpool.last.made_before)
        => /\ taskpool.last.calls = <<"close", "join", "release">>
           /\ ~taskpool.made

\* C17, amended: after stop() returns on a started pool whose underlying
\* pool runs, the pool was closed, then joined, then the pool reference
\* cleared, in that order, and each work item in flight at the close was
\* waited for or thrown away by a terminate() that began during the wait;
\* when stop() was left alone while it waited (no start() was called, no
\* terminate() began, no other call cleared the pool reference), all of it
\* was waited for and the pool released is the one that was closed.  stop()
\* on a pool that was never started, was stopped or terminated, or whose
\* underlying pool does not run, calls nothing and leaves the pool as it
\* was, as does terminate() on no pool.  After terminate() returns on a
\* started pool it was terminated, then the pool reference cleared,
\* without waiting for the work in flight, which was thrown away; when
\* terminate() was left alone while it waited, the pool released is the
\* one that was terminated.
C17_StopReleasesRunningPool ==
    /\ []((taskpool.last.op = "stop" /\ ~taskpool.last.raised) =>
            IF taskpool.last.made_before /\ taskpool.last.state_before = "RUN"
            THEN /\ taskpool.last.calls = <<"close", "join", "release">>
                 /\ taskpool.last.waited + taskpool.last.dropped = taskpool.last.in_flight_before
                 /\ taskpool.last.undisturbed =>
                       /\ taskpool.last.waited = taskpool.last.in_flight_before
                       /\ taskpool.last.dropped = 0
                       /\ ~taskpool.last.released_other
                 /\ ~taskpool.made
            ELSE taskpool.last.calls = <<>>)
    /\ [](taskpool.last.op = "terminate" =>
            IF taskpool.last.made_before
            THEN /\ taskpool.last.calls = <<"terminate", "release">>
                 /\ taskpool.last.waited = 0
                 /\ taskpool.last.dropped = taskpool.last.in_flight_before
                 /\ taskpool.last.undisturbed => ~taskpool.last.released_other
                 /\ ~taskpool.made
            ELSE taskpool.last.calls = <<>> /\ ~taskpool.made)
    /\ [][(/\ taskpool'.last # taskpool.last
           /\ taskpool'.last.op \in {"stop", "terminate"}
           /\ taskpool'.last.calls = <<>>)
              => /\ taskpool'.made = taskpool.made
                 /\ taskpool'.state = taskpool.state
                 /\ taskpool'.in_flight = taskpool.in_flight
                 /\ taskpool'.waits = taskpool.waits]_vars

\* stop() returned on a running pool with work in flight, after waiting
\* for that work, no other call being made meanwhile.
C17_Witness ==
    /\ taskpool.last.op = "stop"
    /\ taskpool.last.state_before = "RUN"
    /\ taskpool.last.in_flight_before = 2
    /\ taskpool.last.calls = <<"close", "join", "release">>
    /\ taskpool.last.waited = 2
    /\ taskpool.last.undisturbed
    /\ ~taskpool.made

(***************************************************************************)
(*                 PROPERTIES OF EXCEPTIONS FOR STORAGE                    *)
(***************************************************************************)
\* C18: prepare_exception(exc) returns an exception of the first class of
\* exc's hierarchy, most specific first, that serializes, carrying exc's
\* arguments unchanged; when no class serializes it returns a wrapper that
\* keeps the module name, the class name and the arguments of exc.
C18_NearestClassSameArgs ==
    prepared.called =>
        LET exc == prepared.exc
            ok == {i \in DOMAIN exc.mro :
                      /\ exc.mro[i].one_arg /\ exc.mro[i].pickles
                      /\ \A k \in DOMAIN exc.args :
                            exc.args[k] \notin {"a lambda", "an open file"}}
        IN  IF ok # {}
            THEN /\ prepared.result.kind = "returned"
                 /\ \E i \in ok :
                       /\ \A j \in ok : i <= j
                       /\ prepared.result.cls = exc.mro[i].name
                 /\ prepared.result.args = exc.args
            ELSE /\ prepared.result.kind = "returned"
                 /\ prepared.result.cls = "UnpickleableExceptionWrapper"
                 /\ prepared.result.exc_module = exc.mro[1].module
                 /\ prepared.result.exc_cls = exc.mro[1].name
                 /\ prepared.result.args[3] = repr(exc.args)

(***************************************************************************)
(*                  PROPERTIES OF THE QUEUE DESCRIPTORS                    *)
(***************************************************************************)
\* C19: for every configured queue get_queues returns all four fields: a
\* missing binding_key is the queue's own exchange name (its configured
\* exchange when it has one, otherwise the default exchange), a missing
\* routing_key is the binding_key returned, and a field the configuration
\* supplies is returned as supplied.
C19_BindingKeyIsOwnExchange ==
    resolved.called =>
        /\ DOMAIN resolved.queues = DOMAIN resolved.config
        /\ \A q \in DOMAIN resolved.config :
              LET opts == resolved.config[q]
                  got == resolved.queues[q]
                  own == IF opts.exchange = <<>> THEN "celery" ELSE opts.exchange[1]
              IN  /\ \A f \in {"exchange", "exchange_type", "binding_key", "routing_key"} :
                        /\ got[f] # <<>>
                        /\ opts[f] # <<>> => got[f] = opts[f]
                  /\ opts.exchange = <<>> => got.exchange = <<"celery">>
                  /\ opts.binding_key = <<>> => got.binding_key = <<own>>
                  /\ opts.routing_key = <<>> => got.routing_key = got.binding_key

(***************************************************************************)
(*                    PROPERTIES OF THE SUBMISSION                         *)
(***************************************************************************)
\* C22: the kwargs the daemon submits to the pool are the kwargs of the
\* message extended with logfile, bound to the daemon's logfile, and
\* loglevel, bound to the daemon's loglevel; the args and the callable are
\* those resolved from the message.
C22_KwargsExtendedWithLogging ==
    submitted.called =>
        LET given == submitted.apply_async
            data == submitted.data
        IN  /\ DOMAIN given.kwargs = DOMAIN data.kwargs \cup {"logfile", "loglevel"}
            /\ \A k \in DOMAIN data.kwargs \ {"logfile", "loglevel"} :
                  given.kwargs[k] = data.kwargs[k]
            /\ given.kwargs["logfile"] = submitted.logfile
            /\ given.kwargs["loglevel"] = submitted.loglevel
            /\ given.args = data.args
            /\ given.target = [function |-> data.task]

(***************************************************************************)
(*               PROPERTIES OF THE SENDS OF ONE PUBLISHER                  *)
(***************************************************************************)
\* C23: every message the publisher sends goes to an exchange that is in
\* the declared-exchange set when it is sent, also when delay_task is given
\* an exchange argument other than the exchange the publisher was made with;
\* and a call of delay_task without an exchange argument sends to the
\* exchange the publisher was made with, whatever the calls before it.
C23_SentToDeclaredExchange ==
    \A i \in DOMAIN sender.sent :
        /\ sender.sent[i].declared
        /\ sender.sent[i].arg = None => sender.sent[i].exchange = sender.configured
====
